---- MODULE Spec2Model ----
(***************************************************************************)
(* Model of the sump pump supervisor, src/sump_pump_monitor.py.            *)
(*                                                                         *)
(* The supervisor is one thread.  An action of the model is the code that  *)
(* runs between two blocking time.sleep() calls: it starts when a sleep    *)
(* returns and ends with the call of the next sleep, whose duration it     *)
(* lets elapse.  pc names the sleep (or function return) the thread is at. *)
(*                                                                         *)
(* Clock.  The code reads time.time() only to subtract a stored timestamp  *)
(* from it, so the model keeps every timestamp relative to the current     *)
(* time: time.time() is 0 in every state, a stored timestamp is <= 0, and  *)
(* a sleep of d seconds moves every stored timestamp d seconds into the    *)
(* past (Elapse).  A timestamp older than the largest duration it is ever  *)
(* compared with is kept at that duration (the comparisons cannot tell).   *)
(***************************************************************************)
EXTENDS Integers, Sequences, FiniteSets, TLC

(***************************************************************************)
(* Configuration: the defaults of src/sump_pump_monitor.py lines 53-82.    *)
(***************************************************************************)
POWER_THRESHOLD_WATTS == 100
MAX_RUN_MINUTES == 3
POLL_INTERVAL_SECONDS == 30
POWER_CYCLE_OFF_SECONDS == 10
POWER_CYCLE_SETTLE_SECONDS == 60
SAFE_RUN_SECONDS == 120
SAFE_REST_SECONDS == 600
SAFE_UPDATE_INTERVAL == 3
MAX_TEMP_C == 60
TEMP_WARN_C == 50
VOLTAGE_LOW == 110
VOLTAGE_HIGH == 130
RSSI_WARN == -80
PUMP_POWER_LOW == 350
PUMP_POWER_HIGH == 700
NO_RUN_ALERT_HOURS == 24
MODE_NORMAL == "NORMAL"
MODE_SAFE == "SAFE"

\* Literal sleeps and delays of the code.
STARTUP_SLEEP_SECONDS == 2
OVERTEMP_SLEEP_SECONDS == 300
OUTPUT_OFF_SLEEP_SECONDS == 2
SAFE_CONFIRM_SECONDS == 60
ANOMALY_DELAY_SECONDS == 30

(***************************************************************************)
(* Bounds of the model.                                                    *)
(***************************************************************************)
\* The main loop is followed while the pump has run within the last MaxIdle
\* seconds (and from MaxIdle seconds before the no-run alert is due).
MaxIdle == 400
\* Duty cycles followed in one safe-mode episode.
MaxCycles == 3
\* Disturbances of the plug followed in one run: a switch of the relay by somebody
\* else, or a Switch.Set call of the supervisor that fails.
MaxDisturbances == 1
\* Consecutive running ticks counted (MaxHeld stands for "MaxHeld or more").
MaxHeld == 8

VARIABLES
    pc,                     \* where the supervisor thread is
    mode,                   \* line 325
    running_since,          \* line 326: None or a timestamp
    last_illumination,      \* line 327
    last_uptime,            \* line 328
    last_pump_run,          \* line 329
    no_run_alerted,         \* line 330
    voltage_alerted,        \* line 331
    rssi_alerted,           \* line 332
    power_anomaly_alerted,  \* line 333
    temp_warned,            \* line 334
    status,                 \* the telemetry reply the running code read last
    still_stuck,            \* line 469: the result of power_cycle()
    cycle_count,            \* run_safe_mode, line 233
    run_start,              \* run_safe_mode, line 241
    pump_stopped_naturally, \* run_safe_mode, line 242
    output,                 \* the plug's relay, the device behind the Actuator Port
    disturbances,           \* how often the plug was disturbed so far
    last_seen_running,      \* history: the time of the latest obtained sample, read
                            \* anywhere while the no-run alert was nearly due, that
                            \* showed the pump running (None: none in the last
                            \* MaxIdle seconds)
    off_by,                 \* history: who switched the relay off, while it is off
                            \* ("supervisor", "other"; "none" while it is on)
    voltage_step,           \* history: how far the voltage samples of the latest
                            \* ticks, each of which evaluated the detectors, have
                            \* followed VoltageScenario
    ticks_held,             \* history: the consecutive ticks the pump has been seen
                            \* running for, counted from the tick that opened the
                            \* RunWindow (0: not running, or not counted from there)
    safe_entered,           \* history: None or the time run_safe_mode was called
    stated_minutes,         \* None or the "minutes total" of the periodic update the
                            \* last action sent (line 287)
    last_command,           \* history: the last actuator command the supervisor
                            \* issued ("on", "off"; "none" before the first)
    obtained,               \* how many of the last action's telemetry reads gave a
                            \* sample
    channels,               \* the notification channels that work ("email", "push")
    attempts,               \* what the last action's notifications tried, in order:
                            \* <<channel, whether the message went out>>
    events                  \* what the last action did, in order: commands,
                            \* notifications, the sleep it ended with

vars == <<pc, mode, running_since, last_illumination, last_uptime, last_pump_run,
          no_run_alerted, voltage_alerted, rssi_alerted, power_anomaly_alerted,
          temp_warned, status, still_stuck, cycle_count, run_start,
          pump_stopped_naturally, output, disturbances, last_seen_running, off_by, voltage_step,
          ticks_held, safe_entered, stated_minutes, last_command, obtained, channels,
          attempts, events>>

(***************************************************************************)
(* Python's None for an optional timestamp or value, and a present value.  *)
(***************************************************************************)
None == <<>>
Some(v) == <<v>>
Val(o) == o[1]

(***************************************************************************)
(* The clock.                                                              *)
(***************************************************************************)
Now == 0
MaxRunSeconds == MAX_RUN_MINUTES * 60
NoRunAlertSeconds == NO_RUN_ALERT_HOURS * 3600
Max2(a, b) == IF a >= b THEN a ELSE b
\* The oldest age of running_since the code can tell from an older one.
RunAgeCap == Max2(MaxRunSeconds, ANOMALY_DELAY_SECONDS + 1)
\* The oldest age of run_start that matters: the run period and the wait for
\* the confirmation sample.
SafeAgeCap == SAFE_RUN_SECONDS + SAFE_CONFIRM_SECONDS
\* The longest a safe-mode episode of MaxCycles duty cycles lasts.
EpisodeCap == MaxCycles * (SAFE_RUN_SECONDS + SAFE_CONFIRM_SECONDS + SAFE_REST_SECONDS)
\* The no-run alert is due within MaxIdle seconds, or overdue, when the pump
\* last ran at t.
AlertNearlyDue(t) == Now - t > NoRunAlertSeconds - MaxIdle
\* An optional timestamp, forgotten once it is MaxIdle seconds old.
Recent(o) == IF o # None /\ Now - o[1] >= MaxIdle THEN None ELSE o
\* A timestamp t after d more seconds, kept at cap once older than cap.
Elapse(t, d, cap) == Max2(t - d, 0 - cap)
ElapseOpt(o, d, cap) == IF o = None THEN None ELSE Some(Elapse(Val(o), d, cap))

(***************************************************************************)
(* Telemetry.  A reply of get_power_status: ok = FALSE is the None it      *)
(* returns when the plug cannot be reached.                                *)
(***************************************************************************)
Unavailable ==
    [ok |-> FALSE, output |-> FALSE, power |-> 0, voltage |-> 0, temp_c |-> 0,
     illumination |-> "unknown", rssi |-> 0, uptime |-> 0]

Reading(out, p, v, t, i, r, u) ==
    [ok |-> TRUE, output |-> out, power |-> p, voltage |-> v, temp_c |-> t,
     illumination |-> i, rssi |-> r, uptime |-> u]

\* Mutant: the threshold itself counts as running.
is_pump_running_ge(st, fresh) ==
    LET s == IF st.ok THEN st ELSE fresh
    IN  s.ok /\ s.power >= POWER_THRESHOLD_WATTS

\* is_pump_running(status): a None status is read again (line 149); fresh is
\* the reply of that second read.
is_pump_running(st, fresh) ==
    LET s == IF st.ok THEN st ELSE fresh
    IN  s.ok /\ s.power > POWER_THRESHOLD_WATTS

\* Mutant: the interlock trips at the cutoff itself.
check_temp_safety_ge(st) == st.ok /\ st.temp_c >= MAX_TEMP_C

\* The condition of check_temp_safety, line 155.
check_temp_safety(st) == st.ok /\ st.temp_c > MAX_TEMP_C

(***************************************************************************)
(* The supervisor's state as one record, so that the code of an action is  *)
(* a composition of operators on it.  events starts empty in every action. *)
(***************************************************************************)
Cur ==
    [pc |-> pc, mode |-> mode, running_since |-> running_since,
     last_illumination |-> last_illumination, last_uptime |-> last_uptime,
     last_pump_run |-> last_pump_run, no_run_alerted |-> no_run_alerted,
     voltage_alerted |-> voltage_alerted, rssi_alerted |-> rssi_alerted,
     power_anomaly_alerted |-> power_anomaly_alerted, temp_warned |-> temp_warned,
     status |-> status, still_stuck |-> still_stuck, cycle_count |-> cycle_count,
     run_start |-> run_start, pump_stopped_naturally |-> pump_stopped_naturally,
     output |-> output, last_seen_running |-> last_seen_running,
     safe_entered |-> safe_entered, stated_minutes |-> None,
     last_command |-> last_command, obtained |-> 0,
     channels |-> channels, attempts |-> <<>>, events |-> <<>>]

Becomes(n) ==
    /\ pc' = n.pc
    /\ mode' = n.mode
    /\ running_since' = n.running_since
    /\ last_illumination' = n.last_illumination
    /\ last_uptime' = n.last_uptime
    /\ last_pump_run' = n.last_pump_run
    /\ no_run_alerted' = n.no_run_alerted
    /\ voltage_alerted' = n.voltage_alerted
    /\ rssi_alerted' = n.rssi_alerted
    /\ power_anomaly_alerted' = n.power_anomaly_alerted
    /\ temp_warned' = n.temp_warned
    /\ status' = n.status
    /\ still_stuck' = n.still_stuck
    /\ cycle_count' = n.cycle_count
    /\ run_start' = n.run_start
    /\ pump_stopped_naturally' = n.pump_stopped_naturally
    /\ output' = n.output
    /\ last_seen_running' = n.last_seen_running
    /\ safe_entered' = n.safe_entered
    /\ stated_minutes' = n.stated_minutes
    /\ last_command' = n.last_command
    /\ obtained' = n.obtained
    /\ channels' = n.channels
    /\ attempts' = n.attempts
    /\ events' = n.events

Emit(s, e) == [s EXCEPT !.events = Append(@, e)]
Goto(s, l) == [s EXCEPT !.pc = l]

\* time.sleep(d): every stored timestamp is d seconds older afterwards.
Sleep(s, d, tag) ==
    [Emit(s, tag) EXCEPT
        !.running_since = ElapseOpt(@, d, RunAgeCap),
        !.last_pump_run = Elapse(@, d, NoRunAlertSeconds),
        !.run_start = ElapseOpt(@, d, SafeAgeCap),
        !.last_seen_running = Recent(ElapseOpt(@, d, MaxIdle)),
        !.safe_entered = ElapseOpt(@, d, EpisodeCap)]

\* turn_on / turn_off: Switch.Set is best effort, a failed call changes nothing.
turn_on(s, rpc_ok) ==
    [Emit(s, "turn_on") EXCEPT !.output = IF rpc_ok THEN TRUE ELSE @,
                               !.last_command = "on"]
turn_off(s, rpc_ok) ==
    [Emit(s, "turn_off") EXCEPT !.output = IF rpc_ok THEN FALSE ELSE @,
                                !.last_command = "off"]

\* The notification channels of send_notification.
Channels == {"email", "push"}

\* Lines 190-202 and 204-214: one try block of send_notification.  The message
\* goes out or the exception of the channel is caught and logged.
Attempt(s, ch) == [s EXCEPT !.attempts = Append(@, <<ch, ch \in s.channels>>)]

\* Mutant: the exception of the e-mail channel is not caught in place, and the
\* push channel is not tried after it.
send_notification_email_first(s, subject) ==
    LET a == Attempt(Emit(s, subject), "email")
    IN  IF "email" \in s.channels THEN Attempt(a, "push") ELSE a

\* send_notification, lines 188-214: the subject is recorded, then e-mail and
\* push are tried, each on its own.
send_notification(s, subject) ==
    Attempt(Attempt(Emit(s, subject), "email"), "push")

\* status = get_power_status(), with the reply st.  (The history notes a reply
\* that shows the pump running when the no-run alert is nearly due.)
Read(s, st) ==
    [Emit(s, "get_status") EXCEPT
        !.status = st,
        !.obtained = IF st.ok THEN @ + 1 ELSE @,
        !.last_seen_running =
            IF is_pump_running(st, st) /\ AlertNearlyDue(s.last_pump_run)
            THEN Some(Now) ELSE @]

\* The body of check_temp_safety when its condition holds, lines 156-164.
OvertempShutoff(s, rpc_ok) == send_notification(turn_off(s, rpc_ok), "notify:overtemp")

(***************************************************************************)
(* The main loop's tick, lines 353-509, for a reply st that was obtained   *)
(* and did not trip the interlock.                                         *)
(***************************************************************************)
\* Mutant: every change of the illumination is alerted.
TrackIllumination_any_change(s, st) ==
    LET changed == s.last_illumination # None /\ st.illumination # Val(s.last_illumination)
        a == IF changed THEN send_notification(s, "notify:light") ELSE s
    IN  [a EXCEPT !.last_illumination = Some(st.illumination)]

\* Lines 356-367: illumination change.
TrackIllumination(s, st) ==
    LET changed == s.last_illumination # None /\ st.illumination # Val(s.last_illumination)
        alert == changed /\ Val(s.last_illumination) = "dark" /\ st.illumination # "dark"
        a == IF alert THEN send_notification(s, "notify:light") ELSE s
    IN  [a EXCEPT !.last_illumination = Some(st.illumination)]

\* Lines 369-381: plug reboot (uptime decreased).
TrackUptime(s, st) ==
    LET alert == s.last_uptime # None /\ st.uptime < Val(s.last_uptime)
        a == IF alert THEN send_notification(s, "notify:reboot") ELSE s
    IN  [a EXCEPT !.last_uptime = Some(st.uptime)]

\* Line 384: the output is off and the mode is NORMAL.
OutputUnexpectedlyOff(s, st) == ~st.output /\ s.mode = MODE_NORMAL

\* Lines 385-394: alert, turn the plug back on, sleep 2 s, continue.
HandleOutputOff(s, rpc_ok) ==
    Goto(Sleep(turn_on(send_notification(s, "notify:plug_off"), rpc_ok),
               OUTPUT_OFF_SLEEP_SECONDS, "sleep:output_off"), "tick")

\* Mutant: the voltage flag is never cleared once set.
CheckVoltage_sticky(s, st) ==
    IF (st.voltage < VOLTAGE_LOW \/ st.voltage > VOLTAGE_HIGH) /\ ~s.voltage_alerted
    THEN [send_notification(s, IF st.voltage < VOLTAGE_LOW
                               THEN "notify:voltage_low" ELSE "notify:voltage_high")
            EXCEPT !.voltage_alerted = TRUE]
    ELSE s

\* Mutant: the voltage alert is sent on every breaching tick.
CheckVoltage_every_tick(s, st) ==
    IF st.voltage < VOLTAGE_LOW \/ st.voltage > VOLTAGE_HIGH
    THEN [send_notification(s, IF st.voltage < VOLTAGE_LOW
                               THEN "notify:voltage_low" ELSE "notify:voltage_high")
            EXCEPT !.voltage_alerted = TRUE]
    ELSE [s EXCEPT !.voltage_alerted = FALSE]

\* Lines 396-410: voltage out of range.
CheckVoltage(s, st) ==
    IF st.voltage < VOLTAGE_LOW \/ st.voltage > VOLTAGE_HIGH
    THEN IF ~s.voltage_alerted
         THEN [send_notification(s, IF st.voltage < VOLTAGE_LOW
                                    THEN "notify:voltage_low" ELSE "notify:voltage_high")
                 EXCEPT !.voltage_alerted = TRUE]
         ELSE s
    ELSE [s EXCEPT !.voltage_alerted = FALSE]

\* Lines 412-425: WiFi signal.
CheckRssi(s, st) ==
    IF st.rssi < RSSI_WARN
    THEN IF ~s.rssi_alerted
         THEN [send_notification(s, "notify:wifi") EXCEPT !.rssi_alerted = TRUE]
         ELSE s
    ELSE [s EXCEPT !.rssi_alerted = FALSE]

\* The condition of the temperature early warning, line 428.
TempWarnCondition(st) == st.temp_c > TEMP_WARN_C /\ st.temp_c <= MAX_TEMP_C

\* Mutant: the temperature warning also switches the plug off.
CheckTempWarn_protective(s, st) ==
    IF TempWarnCondition(st)
    THEN IF ~s.temp_warned
         THEN [turn_off(send_notification(s, "notify:temp_rising"), TRUE)
                    EXCEPT !.temp_warned = TRUE]
         ELSE s
    ELSE IF st.temp_c <= TEMP_WARN_C
         THEN [s EXCEPT !.temp_warned = FALSE]
         ELSE s

\* Lines 427-439: temperature early warning.
CheckTempWarn(s, st) ==
    IF TempWarnCondition(st)
    THEN IF ~s.temp_warned
         THEN [send_notification(s, "notify:temp_rising") EXCEPT !.temp_warned = TRUE]
         ELSE s
    ELSE IF st.temp_c <= TEMP_WARN_C
         THEN [s EXCEPT !.temp_warned = FALSE]
         ELSE s

\* Mutant: the limit is taken as reached one poll interval early.
RunLimitReached_early(rs) ==
    rs # None /\ Now - Val(rs) >= MaxRunSeconds - POLL_INTERVAL_SECONDS

\* Line 466: run_minutes >= MAX_RUN_MINUTES, run_minutes the age of running_since / 60.
RunLimitReached(rs) == rs # None /\ Now - Val(rs) >= MaxRunSeconds

\* Lines 170-172: power_cycle up to its first sleep.
PowerCycleBegin(s, rpc_ok) ==
    Goto(Sleep(turn_off(s, rpc_ok), POWER_CYCLE_OFF_SECONDS, "sleep:power_cycle_off"),
         "pc_off")

\* Mutant: every running sample restarts the RunWindow.
OpenRunWindow_restart(s) ==
    [s EXCEPT !.running_since = Some(Now), !.power_anomaly_alerted = FALSE]

\* Lines 445-448: open the RunWindow.
OpenRunWindow(s) ==
    IF s.running_since = None
    THEN [s EXCEPT !.running_since = Some(Now), !.power_anomaly_alerted = FALSE]
    ELSE s

\* Mutant: the alert is re-armed when the power is back inside the band.
CheckPowerAnomaly_rearm(s, st) ==
    IF st.power >= PUMP_POWER_LOW /\ st.power <= PUMP_POWER_HIGH
    THEN [s EXCEPT !.power_anomaly_alerted = FALSE]
    ELSE IF /\ ~s.power_anomaly_alerted
            /\ s.running_since # None
            /\ Now - Val(s.running_since) > ANOMALY_DELAY_SECONDS
    THEN [send_notification(s, "notify:power_anomaly") EXCEPT !.power_anomaly_alerted = TRUE]
    ELSE s

\* Lines 450-462: abnormal power draw while running.
CheckPowerAnomaly(s, st) ==
    IF /\ ~s.power_anomaly_alerted
       /\ (st.power < PUMP_POWER_LOW \/ st.power > PUMP_POWER_HIGH)
       /\ s.running_since # None
       /\ Now - Val(s.running_since) > ANOMALY_DELAY_SECONDS
    THEN [send_notification(s, "notify:power_anomaly") EXCEPT !.power_anomaly_alerted = TRUE]
    ELSE s

\* Mutant: recovery only once the run is longer than the limit.
PumpRunning_past_limit(s, st, rpc_ok) ==
    LET a == [s EXCEPT !.last_pump_run = Now, !.no_run_alerted = FALSE]
        b == CheckPowerAnomaly(OpenRunWindow(a), st)
    IN  IF b.running_since # None /\ Now - Val(b.running_since) > MaxRunSeconds
        THEN PowerCycleBegin(b, rpc_ok)
        ELSE Goto(Sleep(b, POLL_INTERVAL_SECONDS, "sleep:poll"), "tick")

\* Lines 441-485 up to the call of power_cycle, and line 509.
PumpRunning(s, st, rpc_ok) ==
    LET a == [s EXCEPT !.last_pump_run = Now, !.no_run_alerted = FALSE]
        b == CheckPowerAnomaly(OpenRunWindow(a), st)
    IN  IF RunLimitReached(b.running_since)
        THEN PowerCycleBegin(b, rpc_ok)
        ELSE Goto(Sleep(b, POLL_INTERVAL_SECONDS, "sleep:poll"), "tick")

\* Mutant: the no-run alert does not set its flag.
PumpIdle_alert_every_tick(s, st) ==
    LET a == [s EXCEPT !.running_since = None]
        b == IF Now - a.last_pump_run >= NoRunAlertSeconds /\ ~a.no_run_alerted
             THEN send_notification(a, "notify:no_run")
             ELSE a
    IN  Goto(Sleep(b, POLL_INTERVAL_SECONDS, "sleep:poll"), "tick")

\* Lines 487-509: the pump is idle.
PumpIdle(s, st) ==
    LET a == [s EXCEPT !.running_since = None]
        b == IF Now - a.last_pump_run >= NoRunAlertSeconds /\ ~a.no_run_alerted
             THEN [send_notification(a, "notify:no_run") EXCEPT !.no_run_alerted = TRUE]
             ELSE a
    IN  Goto(Sleep(b, POLL_INTERVAL_SECONDS, "sleep:poll"), "tick")

\* Lines 353-509.
NormalTick(s, st, rpc_ok) ==
    LET a == TrackUptime(TrackIllumination(s, st), st)
    IN  IF OutputUnexpectedlyOff(a, st)
        THEN HandleOutputOff(a, rpc_ok)
        ELSE LET b == CheckTempWarn(CheckRssi(CheckVoltage(a, st), st), st)
             IN  IF is_pump_running(st, st)
                 THEN PumpRunning(b, st, rpc_ok)
                 ELSE PumpIdle(b, st)

\* Lines 346-348: the interlock tripped; shut off and sleep 5 minutes.
InterlockTrip(s, rpc_ok) ==
    Goto(Sleep(OvertempShutoff(s, rpc_ok), OVERTEMP_SLEEP_SECONDS, "sleep:overtemp"),
         "cooldown")

\* Mutant: the interlock is checked after the detectors have run.
MainTick_interlock_late(s, st, rpc_ok) ==
    LET a == Read(s, st)
        b == CheckTempWarn(CheckRssi(CheckVoltage(
                 TrackUptime(TrackIllumination(a, st), st), st), st), st)
    IN  IF ~st.ok
        THEN Goto(Sleep(a, POLL_INTERVAL_SECONDS, "sleep:poll"), "tick")
        ELSE IF check_temp_safety(st)
             THEN InterlockTrip(b, rpc_ok)
             ELSE NormalTick(a, st, rpc_ok)

\* Mutant: a failed read is taken for an idle pump and closes the RunWindow.
MainTick_failed_read_idle(s, st, rpc_ok) ==
    LET a == Read(s, st)
    IN  IF ~st.ok
        THEN Goto(Sleep([a EXCEPT !.running_since = None],
                        POLL_INTERVAL_SECONDS, "sleep:poll"), "tick")
        ELSE IF check_temp_safety(st)
             THEN InterlockTrip(a, rpc_ok)
             ELSE NormalTick(a, st, rpc_ok)

\* Lines 338-509: one iteration of the main loop for the reply st.
MainTick(s, st, rpc_ok) ==
    LET a == Read(s, st)
    IN  IF ~st.ok
        THEN Goto(Sleep(a, POLL_INTERVAL_SECONDS, "sleep:poll"), "tick")
        ELSE IF check_temp_safety(st)
             THEN InterlockTrip(a, rpc_ok)
             ELSE NormalTick(a, st, rpc_ok)

(***************************************************************************)
(* power_cycle, lines 168-185, and the recovery branch, lines 469-485.     *)
(***************************************************************************)
\* Lines 174-176: turn back on and wait for the pump to settle.
PowerCycleOn(s, rpc_ok) ==
    Goto(Sleep(turn_on(s, rpc_ok), POWER_CYCLE_SETTLE_SECONDS, "sleep:power_cycle_settle"),
         "pc_settle")

\* Mutant: the exception is not handled and ends the process.
LoopExcept_fatal(s) ==
    Goto(Emit(s, "exception"), "stopped")

\* Lines 511-513: the main loop's handler of an exception raised in the tick.
LoopExcept(s) ==
    Goto(Sleep(Emit(s, "exception"), POLL_INTERVAL_SECONDS, "sleep:poll"), "tick")

\* Lines 178-185: the post-settle sample st; fresh is the second read that
\* is_pump_running makes when st is None.  Line 180 subscripts status, and
\* raises when status is None while the second read showed the pump running.
PowerCycleSample(s, st, fresh) ==
    LET a == Read(s, st)
        b == IF st.ok THEN a
             ELSE [Emit(a, "get_status") EXCEPT
                        !.obtained = IF fresh.ok THEN @ + 1 ELSE @]
    IN  IF is_pump_running(st, fresh)
        THEN IF st.ok
             THEN Goto([b EXCEPT !.still_stuck = TRUE], "pc_result")
             ELSE LoopExcept(b)
        ELSE Goto([b EXCEPT !.still_stuck = FALSE], "pc_result")

\* Mutant: the RunWindow is left open after a power cycle that worked.
RecoveryCleared_keeps_window(s) ==
    Goto(Sleep(send_notification(s, "notify:power_cycle_fixed"),
               POLL_INTERVAL_SECONDS, "sleep:poll"), "tick")

\* Lines 478-485 and 509: the power cycle worked.
RecoveryCleared(s) ==
    LET a == send_notification(s, "notify:power_cycle_fixed")
        b == [a EXCEPT !.running_since = None]
    IN  Goto(Sleep(b, POLL_INTERVAL_SECONDS, "sleep:poll"), "tick")

(***************************************************************************)
(* shutdown, lines 296-302: the handler of SIGINT and SIGTERM.  sys.exit   *)
(* raises SystemExit where the signal interrupted the program (a sleep,    *)
(* for all but a moment of every action); SystemExit is no Exception, so   *)
(* none of the handlers at lines 110, 201, 213 and 511 catches it, and the *)
(* process ends.                                                           *)
(***************************************************************************)
\* Mutant: the loop's handler catches the exit like any exception.
shutdown_caught(s) == LoopExcept(Emit(s, "exit"))

\* Lines 296-298: log, then sys.exit(0).
shutdown(s) == Goto(Emit(s, "exit"), "stopped")

(***************************************************************************)
(* run_safe_mode, lines 217-293.                                           *)
(***************************************************************************)
\* Mutant: the run period is polled once more when its time is just up.
RunPeriodOpen_inclusive(s) == Now - Val(s.run_start) <= SAFE_RUN_SECONDS

\* Line 244: the condition of the monitoring loop.
RunPeriodOpen(s) == Now - Val(s.run_start) < SAFE_RUN_SECONDS

\* The cycle number as the text of a notification gives it (lines 270, 285).
CycleText(n) ==
    IF n = 1 THEN "cycle 1" ELSE IF n = 2 THEN "cycle 2" ELSE IF n = 3 THEN "cycle 3"
    ELSE "cycle 4 or later"

\* Line 287: the "minutes total" of the periodic update of cycle n.
MinutesTotal(n) == (n * (SAFE_RUN_SECONDS + SAFE_REST_SECONDS)) \div 60

\* Mutant: the periodic update is sent in every cycle.
SafeRest_update_every_cycle(s, rpc_ok) ==
    LET a == turn_off(s, rpc_ok)
        b == Emit(send_notification(a, "notify:still_safe_mode"), CycleText(a.cycle_count))
    IN  Goto(Sleep(b, SAFE_REST_SECONDS, "sleep:safe_rest"), "safe_rest")

\* Mutant: sending the periodic update restarts the count.
SafeRest_update_restarts_count(s, rpc_ok) ==
    LET a == turn_off(s, rpc_ok)
        b == IF a.cycle_count % SAFE_UPDATE_INTERVAL = 0
             THEN [Emit(send_notification(a, "notify:still_safe_mode"),
                        CycleText(a.cycle_count)) EXCEPT !.cycle_count = 0]
             ELSE a
    IN  Goto(Sleep(b, SAFE_REST_SECONDS, "sleep:safe_rest"), "safe_rest")

\* Lines 278-293: rest period, with the periodic update.
SafeRest(s, rpc_ok) ==
    LET a == turn_off(s, rpc_ok)
        b == IF a.cycle_count % SAFE_UPDATE_INTERVAL = 0
             THEN [Emit(send_notification(a, "notify:still_safe_mode"),
                        CycleText(a.cycle_count))
                    EXCEPT !.stated_minutes = Some(MinutesTotal(a.cycle_count))]
             ELSE a
    IN  Goto(Sleep(b, SAFE_REST_SECONDS, "sleep:safe_rest"), "safe_rest")

\* Lines 244-245: the loop condition, then the next poll sleep or the end of
\* the run period (pump_stopped_naturally is False there, so the rest follows).
SafeLoop(s, rpc_ok) ==
    IF RunPeriodOpen(s)
    THEN Goto(Sleep(s, POLL_INTERVAL_SECONDS, "sleep:poll"), "safe_run")
    ELSE SafeRest(s, rpc_ok)

\* Mutant: after the first cycle the plug is no longer commanded on.
SafeCycleStart_first_only(s, rpc_ok) ==
    LET a == [s EXCEPT !.cycle_count = @ + 1]
        b == IF a.cycle_count = 1 THEN turn_on(a, rpc_ok) ELSE Emit(a, "cycle")
        c == [b EXCEPT !.run_start = Some(Now), !.pump_stopped_naturally = FALSE]
    IN  SafeLoop(c, rpc_ok)

\* Mutant: the rest period ends without the output being commanded on again.
SafeCycleStart_no_command(s, rpc_ok) ==
    LET a == [s EXCEPT !.cycle_count = @ + 1]
        b == [a EXCEPT !.run_start = Some(Now), !.pump_stopped_naturally = FALSE]
    IN  SafeLoop(b, rpc_ok)

\* Lines 236-245: the start of a duty cycle.
SafeCycleStart(s, rpc_ok) ==
    LET a == turn_on([s EXCEPT !.cycle_count = @ + 1], rpc_ok)
        b == [a EXCEPT !.run_start = Some(Now), !.pump_stopped_naturally = FALSE]
    IN  SafeLoop(b, rpc_ok)

\* Mutant: a failed power cycle is tried again instead of entering safe mode.
SafeModeEnter_retry(s, rpc_ok) == PowerCycleBegin(s, rpc_ok)

\* Lines 222-233, then the first cycle.
SafeModeEnter(s, rpc_ok) ==
    LET a == send_notification(s, "notify:entering_safe_mode")
    IN  SafeCycleStart([a EXCEPT !.cycle_count = 0, !.safe_entered = Some(Now)], rpc_ok)

\* Mutant: the natural stop is looked for before the temperature is checked.
SafeMonitor_stop_first(s, st, rpc_ok) ==
    LET a == Read(s, st)
    IN  IF ~st.ok
        THEN SafeLoop(a, rpc_ok)
        ELSE IF ~is_pump_running(st, st)
             THEN Goto(Sleep([a EXCEPT !.pump_stopped_naturally = TRUE],
                             SAFE_CONFIRM_SECONDS, "sleep:safe_confirm"),
                       "safe_confirm")
             ELSE IF check_temp_safety(st)
                  THEN SafeRest(OvertempShutoff(a, rpc_ok), rpc_ok)
                  ELSE SafeLoop(a, rpc_ok)

\* Lines 246-264: one poll of the run period.
SafeMonitor(s, st, rpc_ok) ==
    LET a == Read(s, st)
    IN  IF ~st.ok
        THEN SafeLoop(a, rpc_ok)
        ELSE IF check_temp_safety(st)
             THEN SafeRest(OvertempShutoff(a, rpc_ok), rpc_ok)
             ELSE IF ~is_pump_running(st, st)
                  THEN Goto(Sleep([a EXCEPT !.pump_stopped_naturally = TRUE],
                                  SAFE_CONFIRM_SECONDS, "sleep:safe_confirm"),
                            "safe_confirm")
                  ELSE SafeLoop(a, rpc_ok)

\* Mutant: a confirmation sample that could not be obtained counts as a stop.
StopConfirmed_unchecked(st) == ~is_pump_running(st, st)

\* Line 266: the stop is confirmed.
StopConfirmed(st) == st.ok /\ ~is_pump_running(st, st)

\* The locals of run_safe_mode, which exist only during the call.
SafeLocalsGone(s) ==
    [s EXCEPT !.cycle_count = 0, !.run_start = None, !.pump_stopped_naturally = FALSE,
              !.safe_entered = None]

\* Mutant: the plug is commanded off when safe mode returns.
SafeModeReturned_plug_off(s) ==
    LET a == [SafeLocalsGone(turn_off(s, TRUE)) EXCEPT
                 !.running_since = None, !.mode = MODE_NORMAL]
    IN  Goto(Sleep(a, POLL_INTERVAL_SECONDS, "sleep:poll"), "tick")

\* Lines 474-477 and 509: run_safe_mode returned.
SafeModeReturned(s) ==
    LET a == [SafeLocalsGone(s) EXCEPT !.running_since = None, !.mode = MODE_NORMAL]
    IN  Goto(Sleep(a, POLL_INTERVAL_SECONDS, "sleep:poll"), "tick")

\* Mutant: "back to normal" is announced before the stop is confirmed.
SafeConfirm_announce_first(s, st, rpc_ok) ==
    LET a == Emit(send_notification(Read(s, st), "notify:back_to_normal"),
                  CycleText(s.cycle_count))
    IN  IF StopConfirmed(st)
        THEN SafeModeReturned(a)
        ELSE SafeRest(a, rpc_ok)

\* Lines 265-276: the confirmation sample.
SafeConfirm(s, st, rpc_ok) ==
    LET a == Read(s, st)
    IN  IF StopConfirmed(st)
        THEN SafeModeReturned(Emit(send_notification(a, "notify:back_to_normal"),
                                   CycleText(a.cycle_count)))
        ELSE SafeRest(a, rpc_ok)

(***************************************************************************)
(* Startup, lines 318-334.                                                 *)
(***************************************************************************)
\* Mutant: the output is commanded on whatever the reply reports.
StartupCheck_always_on(s, st, rpc_ok) ==
    LET a == Read(s, st)
        b == Sleep(turn_on(a, rpc_ok), STARTUP_SLEEP_SECONDS, "sleep:startup")
        c == [b EXCEPT !.mode = MODE_NORMAL, !.running_since = None,
                       !.last_illumination = None, !.last_uptime = None,
                       !.last_pump_run = Now, !.no_run_alerted = FALSE,
                       !.voltage_alerted = FALSE, !.rssi_alerted = FALSE,
                       !.power_anomaly_alerted = FALSE, !.temp_warned = FALSE]
    IN  Goto(c, "tick")

StartupCheck(s, st, rpc_ok) ==
    LET a == Read(s, st)
        b == IF st.ok /\ ~st.output
             THEN Sleep(turn_on(a, rpc_ok), STARTUP_SLEEP_SECONDS, "sleep:startup")
             ELSE a
        c == [b EXCEPT !.mode = MODE_NORMAL, !.running_since = None,
                       !.last_illumination = None, !.last_uptime = None,
                       !.last_pump_run = Now, !.no_run_alerted = FALSE,
                       !.voltage_alerted = FALSE, !.rssi_alerted = FALSE,
                       !.power_anomaly_alerted = FALSE, !.temp_warned = FALSE]
    IN  Goto(c, "tick")

(***************************************************************************)
(* The environment: what a read of the Telemetry Port may reply.  The      *)
(* reply reports the relay as it is; the plug measures no power through an *)
(* open relay.  Between two reads somebody else may switch the relay, and  *)
(* a Switch.Set of the supervisor may fail.                                *)
(***************************************************************************)
Powers == {0, 100, 101, 450}
Temps == {50, 60, 61}

CoreReadings ==
    {Reading(o, p, 122, t, "dark", 0 - 60, 1) :
        <<o, p, t>> \in {x \in BOOLEAN \X Powers \X Temps : x[1] \/ x[2] = 0}}

\* A brown-out: low voltage, weak signal, the light on, the plug just rebooted.
BrownoutReadings ==
    {Reading(TRUE, 450, 108, t, "bright", 0 - 85, 0) : t \in {50, 61}}

\* Mains voltage just inside and just outside the band, the pump idle.
VoltageReadings == {Reading(TRUE, 0, v, 50, "dark", 0 - 60, 1) : v \in {121, 131}}

\* After a power outage: the plug has rebooted with its output off, the light on.
RebootedReadings == {Reading(FALSE, 0, 122, 50, "bright", 0 - 60, 0)}

\* A labouring motor: the draw at the upper edge of the expected band and
\* just above it.
OverloadReadings ==
    {Reading(TRUE, p, 122, 50, "dark", 0 - 60, 1) :
        p \in {PUMP_POWER_HIGH, PUMP_POWER_HIGH + 1}}

Readings ==
    CoreReadings \cup BrownoutReadings \cup VoltageReadings \cup RebootedReadings
        \cup OverloadReadings

\* The replies a read may give when the relay is `relay`.
Poll(R, relay) == {r \in R : r.output = relay} \cup {Unavailable}

\* The supervisor's state when somebody else has switched the relay (switched)
\* or not since its last action.
Seen(switched) == [Cur EXCEPT !.output = IF switched THEN ~@ ELSE @]

IssuedCommand(n) == \E i \in DOMAIN n.events : n.events[i] \in {"turn_on", "turn_off"}

\* The result n came from the pump_running branch of a tick (lines 441-469):
\* a tick whose sample was obtained, did not trip the interlock, showed the
\* output on and the pump running.
RunningTick(n) ==
    /\ pc = "tick"
    /\ n.status.ok /\ ~check_temp_safety(n.status)
    /\ ~OutputUnexpectedlyOff(Cur, n.status)
    /\ is_pump_running(n.status, n.status)

\* The result n came from a tick that evaluated the anomaly detectors (lines
\* 396-439): its sample was obtained, did not trip the interlock and showed the
\* output on.
DetectorsEvaluated(n) ==
    /\ pc = "tick"
    /\ n.status.ok /\ ~check_temp_safety(n.status)
    /\ ~OutputUnexpectedlyOff(Cur, n.status)

\* A voltage scenario: in band twice, low twice, back in band, low again.
VoltageScenario == <<122, 122, 108, 108, 121, 108>>

\* The longest start of VoltageScenario that the samples end with, when they
\* ended with its first k samples and v came next.
ScenarioAfter(k, v) ==
    LET t == Append(SubSeq(VoltageScenario, 1, k), v)
        fits(j) == /\ j <= Len(VoltageScenario)
                   /\ SubSeq(t, Len(t) - j + 1, Len(t)) = SubSeq(VoltageScenario, 1, j)
    IN  CHOOSE j \in 0..Len(t) : fits(j) /\ \A i \in 0..Len(t) : fits(i) => i <= j

\* voltage_step after the action with result n: an action that does not
\* evaluate the detectors interrupts the scenario.
VoltageStepAfter(n) ==
    IF DetectorsEvaluated(n) THEN ScenarioAfter(voltage_step, n.status.voltage)
    ELSE 0

\* ticks_held after the action with result n.
HeldAfter(n) ==
    IF RunningTick(n)
    THEN IF running_since = None THEN 1
         ELSE IF ticks_held = 0 THEN 0
         ELSE IF ticks_held < MaxHeld THEN ticks_held + 1 ELSE MaxHeld
    ELSE 0

\* off_by after the action with result n: the relay was switched by somebody
\* else before the action (switched) or not, and is off afterwards by the
\* supervisor's doing exactly when the action found it on.
OffByAfter(n, switched) ==
    IF n.output THEN "none"
    ELSE IF Seen(switched).output THEN "supervisor"
    ELSE IF switched THEN "other"
    ELSE off_by

\* The action's result n, with the disturbances it took counted.
Step(n, switched, rpc_ok) ==
    /\ Becomes(n)
    /\ disturbances' = disturbances + (IF switched THEN 1 ELSE 0)
                                    + (IF IssuedCommand(n) /\ ~rpc_ok THEN 1 ELSE 0)
    /\ disturbances' <= MaxDisturbances
    /\ rpc_ok \/ IssuedCommand(n)
    /\ ticks_held' = HeldAfter(n)
    /\ off_by' = OffByAfter(n, switched)
    /\ voltage_step' = VoltageStepAfter(n)

(***************************************************************************)
(* Actions.  R is the set of replies the environment may give.             *)
(***************************************************************************)
Init ==
    /\ pc = "startup"
    /\ mode = MODE_NORMAL
    /\ running_since = None
    /\ last_illumination = None
    /\ last_uptime = None
    /\ last_pump_run = Now
    /\ no_run_alerted = FALSE
    /\ voltage_alerted = FALSE
    /\ rssi_alerted = FALSE
    /\ power_anomaly_alerted = FALSE
    /\ temp_warned = FALSE
    /\ status = Unavailable
    /\ still_stuck = FALSE
    /\ cycle_count = 0
    /\ run_start = None
    /\ pump_stopped_naturally = FALSE
    /\ output \in BOOLEAN
    /\ disturbances = 0
    /\ last_seen_running = None
    /\ off_by = IF output THEN "none" ELSE "other"
    /\ ticks_held = 0
    /\ voltage_step = 0
    /\ safe_entered = None
    /\ stated_minutes = None
    /\ last_command = "none"
    /\ obtained = 0
    /\ channels = Channels
    /\ attempts = <<>>
    /\ events = <<>>

Startup(R) ==
    /\ pc = "startup"
    /\ \E rpc_ok \in BOOLEAN : \E st \in Poll(R, output) :
          Step(StartupCheck(Cur, st, rpc_ok), FALSE, rpc_ok)

\* The main loop is followed while the pump has run within the last MaxIdle
\* seconds, and again from MaxIdle seconds before the no-run alert is due.
IdleFollowed ==
    \/ Now - last_pump_run < MaxIdle
    \/ AlertNearlyDue(last_pump_run)

Tick(R) ==
    /\ pc = "tick"
    /\ IdleFollowed
    /\ \E switched, rpc_ok \in BOOLEAN : \E st \in Poll(R, Seen(switched).output) :
          Step(MainTick(Seen(switched), st, rpc_ok), switched, rpc_ok)

\* Lines 349-351: after the overtemp sleep.
CooldownEnd ==
    /\ pc = "cooldown"
    /\ \E rpc_ok \in BOOLEAN :
          Step(Goto([turn_on(Cur, rpc_ok) EXCEPT !.running_since = None], "tick"),
               FALSE, rpc_ok)

PowerCycleOffDone ==
    /\ pc = "pc_off"
    /\ \E rpc_ok \in BOOLEAN : Step(PowerCycleOn(Cur, rpc_ok), FALSE, rpc_ok)

PowerCycleSettled(R) ==
    /\ pc = "pc_settle"
    /\ \E switched \in BOOLEAN : \E st, fresh \in Poll(R, Seen(switched).output) :
          Step(PowerCycleSample(Seen(switched), st, fresh), switched, TRUE)

PowerCycleWorked ==
    /\ pc = "pc_result"
    /\ ~still_stuck
    /\ Step(RecoveryCleared(Cur), FALSE, TRUE)

EnterSafeMode ==
    /\ pc = "pc_result"
    /\ still_stuck
    /\ \E rpc_ok \in BOOLEAN : Step(SafeModeEnter(Cur, rpc_ok), FALSE, rpc_ok)

SafeRunPoll(R) ==
    /\ pc = "safe_run"
    /\ \E switched, rpc_ok \in BOOLEAN : \E st \in Poll(R, Seen(switched).output) :
          Step(SafeMonitor(Seen(switched), st, rpc_ok), switched, rpc_ok)

SafeConfirmPoll(R) ==
    /\ pc = "safe_confirm"
    /\ \E switched, rpc_ok \in BOOLEAN : \E st \in Poll(R, Seen(switched).output) :
          Step(SafeConfirm(Seen(switched), st, rpc_ok), switched, rpc_ok)

SafeRestDone ==
    /\ pc = "safe_rest"
    /\ cycle_count < MaxCycles
    /\ \E rpc_ok \in BOOLEAN : Step(SafeCycleStart(Cur, rpc_ok), FALSE, rpc_ok)

Next ==
    \/ Startup(Readings)
    \/ Tick(Readings)
    \/ CooldownEnd
    \/ PowerCycleOffDone
    \/ PowerCycleSettled(Readings)
    \/ PowerCycleWorked
    \/ EnterSafeMode
    \/ SafeRunPoll(Readings)
    \/ SafeConfirmPoll(Readings)
    \/ SafeRestDone

Spec == Init /\ [][Next]_vars

(***************************************************************************)
(* The duty cycle under fairness.  The replies are reduced to what decides *)
(* the supervisor's control flow: the output, the pump running or not, the *)
(* temperature below or above the cutoff.  The supervisor thread always    *)
(* runs on in safe mode: a sleep returns and a read returns (a request     *)
(* times out after 10 s), so the step of run_safe_mode that is due is      *)
(* taken.                                                                  *)
(***************************************************************************)
DutyReadings ==
    {Reading(o, p, 122, t, "dark", 0 - 60, 1) :
        <<o, p, t>> \in {x \in BOOLEAN \X {0, 450} \X {50, 61} : x[1] \/ x[2] = 0}}

DutyNext ==
    \/ Startup(DutyReadings)
    \/ Tick(DutyReadings)
    \/ CooldownEnd
    \/ PowerCycleOffDone
    \/ PowerCycleSettled(DutyReadings)
    \/ PowerCycleWorked
    \/ EnterSafeMode
    \/ SafeRunPoll(DutyReadings)
    \/ SafeConfirmPoll(DutyReadings)
    \/ SafeRestDone

DutySpec ==
    /\ Init /\ [][DutyNext]_vars
    /\ WF_vars(SafeRunPoll(DutyReadings))
    /\ WF_vars(SafeConfirmPoll(DutyReadings))
    /\ WF_vars(SafeRestDone)

(***************************************************************************)
(* The supervisor after a long idle time: the main loop has ticked since   *)
(* startup, every sample showed the pump idle and nothing out of range,    *)
(* and the no-run alert is due in two ticks.                               *)
(***************************************************************************)
InitLongIdle ==
    /\ pc = "tick"
    /\ mode = MODE_NORMAL
    /\ running_since = None
    /\ last_illumination = Some("dark")
    /\ last_uptime = Some(1)
    /\ last_pump_run = 0 - (NoRunAlertSeconds - 2 * POLL_INTERVAL_SECONDS)
    /\ no_run_alerted = FALSE
    /\ voltage_alerted = FALSE
    /\ rssi_alerted = FALSE
    /\ power_anomaly_alerted = FALSE
    /\ temp_warned = FALSE
    /\ status = Reading(TRUE, 0, 122, 50, "dark", 0 - 60, 1)
    /\ still_stuck = FALSE
    /\ cycle_count = 0
    /\ run_start = None
    /\ pump_stopped_naturally = FALSE
    /\ output = TRUE
    /\ disturbances = 0
    /\ last_seen_running = None
    /\ off_by = "none"
    /\ voltage_step = 2
    /\ ticks_held = 0
    /\ safe_entered = None
    /\ stated_minutes = None
    /\ last_command = "none"
    /\ obtained = 1
    /\ channels = Channels
    /\ attempts = <<>>
    /\ events = <<"get_status", "sleep:poll">>

\* The replies of the ticks after the long idle time: those of DutyReadings, a
\* brown-out, and a warm pump that draws less than expected while the mains
\* voltage is high.
LongIdleReadings ==
    DutyReadings \cup BrownoutReadings
        \cup {Reading(TRUE, 101, 131, 60, "dark", 0 - 60, 1)}

LongIdleNext ==
    \/ Tick(LongIdleReadings)
    \/ CooldownEnd
    \/ PowerCycleOffDone
    \/ PowerCycleSettled(DutyReadings)
    \/ PowerCycleWorked
    \/ EnterSafeMode
    \/ SafeRunPoll(DutyReadings)
    \/ SafeConfirmPoll(DutyReadings)
    \/ SafeRestDone

LongIdleSpec == InitLongIdle /\ [][LongIdleNext]_vars

(***************************************************************************)
(* The stuck float: the output is on, the temperature stays below the      *)
(* cutoff and every sample that is obtained shows the pump running; a read *)
(* may still fail.  The supervisor thread always runs on: a recovery that  *)
(* has begun is carried through (its sleeps and reads return), and the     *)
(* ticks of the main loop go on as long as samples keep being obtained,    *)
(* which is the premise of the property checked here.                      *)
(***************************************************************************)
StuckReadings ==
    {Reading(TRUE, p, 122, 50, "dark", 0 - 60, 1) : p \in {101, 450}}

StuckNext ==
    \/ Startup(StuckReadings)
    \/ Tick(StuckReadings)
    \/ PowerCycleOffDone
    \/ PowerCycleSettled(StuckReadings)
    \/ PowerCycleWorked
    \/ EnterSafeMode
    \/ SafeRunPoll(StuckReadings)
    \/ SafeRestDone

StuckSpec ==
    /\ Init /\ [][StuckNext]_vars
    /\ WF_vars(PowerCycleOffDone)
    /\ WF_vars(PowerCycleSettled(StuckReadings))
    /\ WF_vars(PowerCycleWorked)
    /\ WF_vars(EnterSafeMode)

(***************************************************************************)
(* The supervisor with notification channels that may be down: the mail    *)
(* server or the push service, or both, cannot be reached.                 *)
(***************************************************************************)
InitNotify ==
    /\ pc = "startup"
    /\ mode = MODE_NORMAL
    /\ running_since = None
    /\ last_illumination = None
    /\ last_uptime = None
    /\ last_pump_run = Now
    /\ no_run_alerted = FALSE
    /\ voltage_alerted = FALSE
    /\ rssi_alerted = FALSE
    /\ power_anomaly_alerted = FALSE
    /\ temp_warned = FALSE
    /\ status = Unavailable
    /\ still_stuck = FALSE
    /\ cycle_count = 0
    /\ run_start = None
    /\ pump_stopped_naturally = FALSE
    /\ output \in BOOLEAN
    /\ disturbances = 0
    /\ last_seen_running = None
    /\ off_by = IF output THEN "none" ELSE "other"
    /\ ticks_held = 0
    /\ voltage_step = 0
    /\ safe_entered = None
    /\ stated_minutes = None
    /\ last_command = "none"
    /\ obtained = 0
    /\ channels \in SUBSET Channels
    /\ attempts = <<>>
    /\ events = <<>>

NotifySpec == InitNotify /\ [][DutyNext]_vars

(***************************************************************************)
(* The supervisor with a termination signal that may arrive during any     *)
(* sleep, checked with the readings of DutySpec.                           *)
(***************************************************************************)
Shutdown ==
    /\ pc # "stopped"
    /\ Step(shutdown(Cur), FALSE, TRUE)

SignalNext ==
    \/ DutyNext
    \/ Shutdown

SignalSpec == Init /\ [][SignalNext]_vars

(***************************************************************************)
(* Vocabulary of the properties.                                           *)
(***************************************************************************)
SafePcs == {"safe_run", "safe_confirm", "safe_rest"}
RecoveryPcs == {"pc_off", "pc_settle", "pc_result"}
HasIn(ev, e) == \E i \in DOMAIN ev : ev[i] = e
CountIn(ev, e) == Cardinality({i \in DOMAIN ev : ev[i] = e})
Has(e) == HasIn(events, e)
\* The age of the RunWindow when a tick starts (0 when there is none to age).
RunWindowAge == IF running_since = None THEN 0 ELSE Now - Val(running_since)
\* The alert flags and the remembered illumination and uptime.
AlertState ==
    <<voltage_alerted, rssi_alerted, temp_warned, power_anomaly_alerted, no_run_alerted,
      last_illumination, last_uptime>>

(***************************************************************************)
(* C1.  In NORMAL mode a tick invokes the Recovery Procedure if and only   *)
(* if its sample shows the pump running and the RunWindow age has reached  *)
(* the max-continuous-run limit: recovery is invoked from a tick only, it  *)
(* is never invoked while the age is below the limit, and a tick whose     *)
(* sample reaches the NORMAL-mode logic (obtained, not tripping the        *)
(* interlock), shows the pump running and finds the age at or past the     *)
(* limit invokes it on that same tick.                                     *)
(***************************************************************************)
C1_RecoveryIffRunLimitReached ==
    [][/\ pc' = "pc_off" /\ pc # "pc_off" =>
            /\ pc = "tick"
            /\ status'.ok /\ status'.power > POWER_THRESHOLD_WATTS
            /\ RunWindowAge >= MAX_RUN_MINUTES * 60
       /\ ( /\ pc = "tick"
            /\ status'.ok /\ status'.temp_c <= MAX_TEMP_C
            /\ status'.power > POWER_THRESHOLD_WATTS
            /\ RunWindowAge >= MAX_RUN_MINUTES * 60 ) =>
            pc' = "pc_off" /\ HasIn(events', "turn_off")]_vars

C1_Witness ==
    pc = "pc_off" /\ Has("turn_off") /\ status.power > POWER_THRESHOLD_WATTS

(***************************************************************************)
(* C2.  The hard-temperature interlock fires in every phase: a sample      *)
(* above the cutoff (which "at or above the cutoff" includes) that is read *)
(* in the middle of the Recovery Procedure (the post-settle sample) or of  *)
(* safe mode (run monitoring, the stop-confirmation sample) forces the     *)
(* output off.                                                             *)
(***************************************************************************)
MidProcedureSample ==
    /\ Has("get_status")
    /\ \/ pc = "pc_result"
       \/ Has("exception")
       \/ pc \in SafePcs
       \/ Has("notify:back_to_normal")

C2_InterlockInEveryPhase ==
    (MidProcedureSample /\ status.ok /\ status.temp_c > MAX_TEMP_C) => Has("turn_off")

(***************************************************************************)
(* C3.  Safe mode is exited only when a stop has been confirmed twice: a   *)
(* monitoring sample with power below the run threshold, followed after    *)
(* the confirmation delay by a second obtained sample that is also below   *)
(* the run threshold.  (The statement as claimed.)                         *)
(***************************************************************************)
C3_ExitOnlyBelowThresholdTwice ==
    [][(pc \in SafePcs /\ pc' \notin SafePcs) =>
            /\ pc = "safe_confirm"
            /\ status.ok /\ status.power < POWER_THRESHOLD_WATTS
            /\ status'.ok /\ status'.power < POWER_THRESHOLD_WATTS]_vars

(***************************************************************************)
(* C3, amended.  Safe mode is exited only when a stop has been confirmed   *)
(* twice: a monitoring sample with power not above the run threshold,      *)
(* followed after the confirmation delay by a second obtained sample that  *)
(* is not above it either, with no sample read between the two.  A         *)
(* confirmation sample that shows the pump running, or that could not be   *)
(* obtained, never ends the SAFE episode.                                  *)
(***************************************************************************)
C3_ExitOnlyAfterConfirmedStop ==
    [][/\ (pc \in SafePcs /\ pc' \notin SafePcs) =>
            /\ pc = "safe_confirm" /\ pump_stopped_naturally
            /\ status.ok /\ status.power <= POWER_THRESHOLD_WATTS
            /\ status'.ok /\ status'.power <= POWER_THRESHOLD_WATTS
            /\ CountIn(events', "get_status") = 1
            /\ pc' = "tick"
       /\ (pc' = "safe_confirm" /\ pc # "safe_confirm") =>
            /\ pc = "safe_run"
            /\ status'.ok /\ status'.power <= POWER_THRESHOLD_WATTS
            /\ HasIn(events', "sleep:safe_confirm")
       /\ (pc = "safe_confirm" /\ (~status'.ok \/ status'.power > POWER_THRESHOLD_WATTS)) =>
            pc' \in SafePcs]_vars

C3_Witness ==
    pc = "tick" /\ Has("notify:back_to_normal") /\ status.power = POWER_THRESHOLD_WATTS

(***************************************************************************)
(* C4.  Safe mode is entered exactly when the Recovery Procedure returns   *)
(* "still stuck": SAFE is entered from no other place, and a recovery that *)
(* returned "still stuck" is followed at once by the entry into SAFE (the  *)
(* entry notification, the first duty cycle's on command), with no second  *)
(* power cycle first.                                                      *)
(***************************************************************************)
C4_SafeEnteredExactlyOnFailedRecovery ==
    [][/\ (pc \notin SafePcs /\ pc' \in SafePcs) =>
            pc = "pc_result" /\ still_stuck
       /\ (pc = "pc_result" /\ still_stuck) =>
            /\ pc' \in SafePcs
            /\ cycle_count' = 1
            /\ HasIn(events', "notify:entering_safe_mode")
            /\ ~HasIn(events', "turn_off")]_vars

C4_Witness ==
    pc = "safe_run" /\ cycle_count = 1 /\ Has("notify:entering_safe_mode")

(***************************************************************************)
(* C5.  When the Recovery Procedure's post-cycle sample is below the run   *)
(* threshold, the procedure returns "cleared", and then the supervisor     *)
(* stays in NORMAL, clears the RunWindow, sends exactly one "power cycle   *)
(* fixed" notification, does not enter safe mode and sends no "entering    *)
(* safe mode" notification.                                                *)
(***************************************************************************)
C5_RecoverySuccessStaysNormal ==
    [][/\ (pc = "pc_settle" /\ status'.ok /\ status'.power < POWER_THRESHOLD_WATTS) =>
            pc' = "pc_result" /\ ~still_stuck'
       /\ (pc = "pc_result" /\ ~still_stuck) =>
            /\ pc' = "tick"
            /\ mode' = MODE_NORMAL
            /\ running_since' = None
            /\ CountIn(events', "notify:power_cycle_fixed") = 1
            /\ ~HasIn(events', "notify:entering_safe_mode")
            /\ ~HasIn(events', "turn_on") /\ ~HasIn(events', "turn_off")]_vars

C5_Witness ==
    /\ pc = "tick" /\ Has("notify:power_cycle_fixed")
    /\ status.ok /\ status.power < POWER_THRESHOLD_WATTS
    /\ running_since = None

(***************************************************************************)
(* C6.  On a tick with a sample the interlock is evaluated before any mode *)
(* logic.  When it trips in NORMAL the supervisor does, in this order and  *)
(* nothing else: output off, one overtemp alert, a 5-minute cooldown, then *)
(* output on and RunWindow reset.  No detector is evaluated: the alert     *)
(* flags and the remembered illumination and uptime are unchanged, there   *)
(* is no unexpected-off handling, no RunWindow is opened, the last-run     *)
(* timestamp is not refreshed and no recovery is invoked.                  *)
(***************************************************************************)
C6_InterlockPreemptsTick ==
    [][/\ (pc = "tick" /\ status'.ok /\ status'.temp_c > MAX_TEMP_C) =>
            /\ events' = <<"get_status", "turn_off", "notify:overtemp", "sleep:overtemp">>
            /\ pc' = "cooldown"
            /\ AlertState' = AlertState
            /\ mode' = mode
            /\ (running_since' = None) <=> (running_since = None)
            /\ last_pump_run' <= 0 - OVERTEMP_SLEEP_SECONDS
       /\ pc = "cooldown" =>
            /\ events' = <<"turn_on">>
            /\ running_since' = None
            /\ pc' = "tick"
            /\ AlertState' = AlertState
            /\ mode' = mode
            /\ last_pump_run' = last_pump_run]_vars

C6_Witness ==
    /\ pc = "cooldown" /\ Has("notify:overtemp")
    /\ status.voltage < VOLTAGE_LOW /\ ~voltage_alerted
    /\ running_since = None

(***************************************************************************)
(* C7.  The interlock trips if and only if temperature >= cutoff, and the  *)
(* temperature-warning condition holds if and only if warn < temperature < *)
(* cutoff, so a sample exactly at the cutoff forces the output off and     *)
(* raises no "temperature rising" warning.  (The statement as claimed.)    *)
(***************************************************************************)
C7_TripAtCutoff ==
    [][(pc = "tick" /\ status'.ok) =>
            /\ (pc' = "cooldown") <=> (status'.temp_c >= MAX_TEMP_C)
            /\ status'.temp_c >= MAX_TEMP_C =>
                  /\ HasIn(events', "turn_off")
                  /\ ~HasIn(events', "notify:temp_rising")
                  /\ temp_warned' = temp_warned]_vars

(***************************************************************************)
(* C7, amended.  The interlock trips if and only if temperature > cutoff,  *)
(* and the temperature-warning condition holds if and only if              *)
(* warn < temperature <= cutoff; the two are mutually exclusive.  A sample *)
(* exactly at the cutoff does not trip the interlock, and on a tick that   *)
(* reaches the detectors it sets the warning flag, with a "temperature     *)
(* rising" alert when the flag was clear.                                  *)
(***************************************************************************)
C7_TripAboveCutoffWarnUpToCutoff ==
    [][(pc = "tick" /\ status'.ok) =>
            /\ (pc' = "cooldown") <=> (status'.temp_c > MAX_TEMP_C)
            /\ pc' = "cooldown" =>
                  HasIn(events', "turn_off") /\ HasIn(events', "notify:overtemp")
            /\ ~(HasIn(events', "notify:overtemp") /\ HasIn(events', "notify:temp_rising"))
            /\ (status'.output /\ status'.temp_c <= MAX_TEMP_C) =>
                  IF status'.temp_c > TEMP_WARN_C
                  THEN temp_warned' /\ (HasIn(events', "notify:temp_rising") <=> ~temp_warned)
                  ELSE ~temp_warned' /\ ~HasIn(events', "notify:temp_rising")
            /\ status'.temp_c > MAX_TEMP_C =>
                  temp_warned' = temp_warned /\ ~HasIn(events', "notify:temp_rising")]_vars

C7_Witness ==
    /\ pc = "tick" /\ status.ok /\ status.temp_c = MAX_TEMP_C
    /\ Has("notify:temp_rising") /\ ~Has("turn_off") /\ temp_warned

(***************************************************************************)
(* C8.  The pump is classified as running exactly when sampled power >=    *)
(* run threshold, power equal to the threshold included, and the same      *)
(* classification decides RunWindow opening, the Recovery Procedure's      *)
(* result and safe mode's natural-stop detection.  (The statement as       *)
(* claimed.)                                                               *)
(***************************************************************************)
C8_RunningAtThreshold ==
    [][/\ (pc = "tick" /\ status'.ok /\ status'.output /\ pc' # "cooldown") =>
            ((running_since' # None) <=> (status'.power >= POWER_THRESHOLD_WATTS))
       /\ (pc = "pc_settle" /\ status'.ok) =>
            /\ pc' = "pc_result"
            /\ still_stuck' <=> (status'.power >= POWER_THRESHOLD_WATTS)
       /\ (pc = "safe_run" /\ status'.ok /\ ~HasIn(events', "notify:overtemp")) =>
            ((pc' = "safe_confirm") <=> (status'.power < POWER_THRESHOLD_WATTS))
       /\ (pc = "safe_confirm" /\ status'.ok) =>
            ((pc' = "tick") <=> (status'.power < POWER_THRESHOLD_WATTS))]_vars

(***************************************************************************)
(* C8, amended.  The pump is classified as running exactly when sampled    *)
(* power > run threshold; power equal to the threshold is not running.     *)
(* The same classification decides RunWindow opening (and closing) on a    *)
(* tick that reaches the NORMAL-mode logic, the Recovery Procedure's       *)
(* "still stuck"/"cleared" result for an obtained sample, and safe mode's  *)
(* natural-stop detection and confirmation.                                *)
(***************************************************************************)
C8_RunningAboveThreshold ==
    [][/\ (pc = "tick" /\ status'.ok /\ status'.output /\ pc' # "cooldown") =>
            ((running_since' # None) <=> (status'.power > POWER_THRESHOLD_WATTS))
       /\ (pc = "pc_settle" /\ status'.ok) =>
            /\ pc' = "pc_result"
            /\ still_stuck' <=> (status'.power > POWER_THRESHOLD_WATTS)
       /\ (pc = "safe_run" /\ status'.ok /\ ~HasIn(events', "notify:overtemp")) =>
            ((pc' = "safe_confirm") <=> (status'.power <= POWER_THRESHOLD_WATTS))
       /\ (pc = "safe_confirm" /\ status'.ok) =>
            ((pc' = "tick") <=> (status'.power <= POWER_THRESHOLD_WATTS))]_vars

C8_Witness ==
    /\ pc = "pc_result" /\ Has("get_status")
    /\ status.ok /\ status.power = POWER_THRESHOLD_WATTS /\ ~still_stuck

(***************************************************************************)
(* C9.  Recovery is triggered only by a continuous run: a RunWindow never  *)
(* survives a tick whose obtained sample shows the pump not drawing        *)
(* run-level power, a tick where the output was found off included.        *)
(***************************************************************************)
C9_RunWindowNeverSurvivesIdleSample ==
    [][(pc = "tick" /\ pc' = "tick" /\ status'.ok
            /\ status'.power < POWER_THRESHOLD_WATTS) =>
            running_since' = None]_vars

(***************************************************************************)
(* C10.  In every state the RunWindow is set only while the supervisor is  *)
(* in NORMAL mode and the pump is drawing power above the run threshold:   *)
(* it is unset throughout a SAFE episode, and it is unset between ticks    *)
(* whenever the most recent sample showed power below the threshold.       *)
(***************************************************************************)
C10_RunWindowOnlyWhileNormalAndRunning ==
    /\ pc \in SafePcs => running_since = None
    /\ (pc = "tick" /\ status.ok /\ status.power < POWER_THRESHOLD_WATTS) =>
            running_since = None

(***************************************************************************)
(* C11.  For every NORMAL-mode sample with power at or above the run       *)
(* threshold (the threshold itself included) that reaches the NORMAL-mode  *)
(* logic, a RunWindow is open by the end of the tick that processed it.    *)
(* (The statement as claimed.)                                             *)
(***************************************************************************)
C11_RunWindowOpenAtThreshold ==
    [][(pc = "tick" /\ mode = MODE_NORMAL /\ status'.ok /\ status'.output
            /\ status'.temp_c <= MAX_TEMP_C
            /\ status'.power >= POWER_THRESHOLD_WATTS) =>
            running_since' # None]_vars

\* The seconds the sleep that ended the last action took.
TickSleepSeconds(ev) ==
    IF HasIn(ev, "sleep:poll") THEN POLL_INTERVAL_SECONDS
    ELSE IF HasIn(ev, "sleep:power_cycle_off") THEN POWER_CYCLE_OFF_SECONDS
    ELSE IF HasIn(ev, "sleep:output_off") THEN OUTPUT_OFF_SLEEP_SECONDS
    ELSE 0

(***************************************************************************)
(* C11, amended.  For every NORMAL-mode sample with power above the run    *)
(* threshold that reaches the NORMAL-mode logic (obtained, output on, not  *)
(* tripping the interlock), a RunWindow is open by the end of the tick     *)
(* that processed it: the tick of the first such sample opens it with that *)
(* tick's time as its start, and an already open RunWindow keeps its       *)
(* original start time (it only ages by the sleep that ends the tick).  A  *)
(* sample of exactly the threshold opens no RunWindow.                     *)
(***************************************************************************)
C11_RunWindowOpenAboveThreshold ==
    [][(pc = "tick" /\ mode = MODE_NORMAL /\ status'.ok /\ status'.output
            /\ status'.temp_c <= MAX_TEMP_C) =>
            /\ status'.power > POWER_THRESHOLD_WATTS =>
                  /\ running_since' # None
                  /\ Now - Val(running_since') =
                        IF running_since = None
                        THEN TickSleepSeconds(events')
                        ELSE IF RunWindowAge + TickSleepSeconds(events') <= RunAgeCap
                             THEN RunWindowAge + TickSleepSeconds(events')
                             ELSE RunAgeCap
            /\ status'.power = POWER_THRESHOLD_WATTS => running_since' = None]_vars

C11_Witness ==
    /\ pc = "tick" /\ mode = MODE_NORMAL /\ Has("sleep:poll")
    /\ status.ok /\ status.power > POWER_THRESHOLD_WATTS
    /\ running_since = Some(0 - 2 * POLL_INTERVAL_SECONDS)

(***************************************************************************)
(* C12.  With the 3-minute limit and 30 s polling, a pump seen running     *)
(* (450 W, or any power above the threshold) on consecutive NORMAL ticks,  *)
(* the first of which opened the RunWindow, triggers no recovery on ticks  *)
(* 1 to 6 (so none when held for 4 ticks) and triggers recovery on tick 7, *)
(* when the RunWindow's age has reached 180 s.                             *)
(***************************************************************************)
C12_RecoveryOnSeventhTick ==
    [][/\ ticks_held' = 1 =>
            running_since = None /\ running_since' = Some(0 - POLL_INTERVAL_SECONDS)
       /\ ticks_held' \in 1..6 =>
            /\ pc' = "tick"
            /\ ~HasIn(events', "turn_off")
            /\ RunWindowAge = (ticks_held' - 1) * POLL_INTERVAL_SECONDS
       /\ ticks_held' = 7 =>
            /\ pc' = "pc_off"
            /\ HasIn(events', "turn_off")
            /\ RunWindowAge = 180
       /\ ticks_held' <= 7]_vars

C12_Witness ==
    /\ pc = "pc_off" /\ ticks_held = 7
    /\ status.ok /\ status.power = 450 /\ Has("turn_off")

\* The tick that is being taken evaluates the anomaly detectors: its sample
\* was obtained, shows the output on and does not trip the interlock.
DetectorsRan ==
    pc = "tick" /\ status'.ok /\ status'.output /\ status'.temp_c <= MAX_TEMP_C

\* The notifications of level-triggered alert (its subjects: tags) the step sends, given the
\* breach the sample shows and the flag before the step.
OncePerExcursion(breach, flag, tags) ==
    LET sent == Cardinality({i \in DOMAIN events' : events'[i] \in tags})
    IN  sent = IF breach /\ ~flag THEN 1 ELSE 0

(***************************************************************************)
(* C13.  Each level-triggered alert (voltage out of band, signal below the *)
(* floor, temperature warning) is sent at most once per excursion: a tick  *)
(* that evaluates the detectors sends the alert exactly when its sample    *)
(* breaches and the flag is clear, and leaves the flag set exactly when    *)
(* the sample breaches (so later ticks of the excursion send nothing and   *)
(* an in-range sample re-arms the alert); no other step sends such an      *)
(* alert or changes a flag.  Hence a breach, a clear and a second breach   *)
(* produce exactly two notifications, whatever the ticks spent in each.    *)
(***************************************************************************)
C13_LevelAlertsOncePerExcursion ==
    [][IF DetectorsRan
       THEN LET v == status'.voltage < VOLTAGE_LOW \/ status'.voltage > VOLTAGE_HIGH
                r == status'.rssi < RSSI_WARN
                t == status'.temp_c > TEMP_WARN_C
            IN  /\ voltage_alerted' = v
                /\ OncePerExcursion(v, voltage_alerted,
                                    {"notify:voltage_low", "notify:voltage_high"})
                /\ HasIn(events', "notify:voltage_low") => status'.voltage < VOLTAGE_LOW
                /\ HasIn(events', "notify:voltage_high") => status'.voltage > VOLTAGE_HIGH
                /\ rssi_alerted' = r
                /\ OncePerExcursion(r, rssi_alerted, {"notify:wifi"})
                /\ temp_warned' = t
                /\ OncePerExcursion(t, temp_warned, {"notify:temp_rising"})
       ELSE /\ <<voltage_alerted, rssi_alerted, temp_warned>>' =
                    <<voltage_alerted, rssi_alerted, temp_warned>>
            /\ OncePerExcursion(FALSE, FALSE,
                                {"notify:voltage_low", "notify:voltage_high",
                                 "notify:wifi", "notify:temp_rising"})]_vars

\* The second breach of the voltage scenario has just raised the second alert.
C13_Witness ==
    /\ voltage_step = Len(VoltageScenario)
    /\ Has("notify:voltage_low") /\ voltage_alerted

\* The voltage alerts the step sends.
VoltageAlertsSent ==
    <<CountIn(events', "notify:voltage_low"), CountIn(events', "notify:voltage_high")>>

(***************************************************************************)
(* C14.  For the voltage samples [122, 122, 108, 108, 121] of consecutive  *)
(* ticks that evaluate the detectors, with the low limit 110: no alert on  *)
(* the first and second sample, exactly one "LOW" alert on the third, none *)
(* on the fourth and fifth, and after the fifth the voltage flag is clear. *)
(***************************************************************************)
C14_VoltageScenario ==
    [][/\ voltage_step' \in {1, 2} =>
            VoltageAlertsSent = <<0, 0>> /\ ~voltage_alerted'
       /\ voltage_step' = 3 =>
            VoltageAlertsSent = <<1, 0>> /\ voltage_alerted'
       /\ voltage_step' = 4 =>
            VoltageAlertsSent = <<0, 0>> /\ voltage_alerted'
       /\ voltage_step' = 5 =>
            VoltageAlertsSent = <<0, 0>> /\ ~voltage_alerted']_vars

C14_Witness ==
    /\ voltage_step = 5 /\ pc = "tick"
    /\ status.voltage = 121 /\ ~voltage_alerted
    /\ ~Has("notify:voltage_low")

(***************************************************************************)
(* C15.  While in safe mode without a confirmed stop, pumping is periodic: *)
(* every duty cycle starts with an on command and counts the cycle; the    *)
(* run period of a cycle always ends (each poll uses up 30 s of it); the   *)
(* only step out of the rest period is the start of the next cycle, with   *)
(* no limit on the count.  So every run period leads to the rest period    *)
(* unless the episode ends, and every rest period leads to the next on     *)
(* command (in the model: while duty cycles are left to follow).           *)
(***************************************************************************)
C15_PeriodicPumping ==
    /\ [][/\ (pc' = "safe_run" /\ pc # "safe_run") =>
                /\ pc \in {"pc_result", "safe_rest"}
                /\ HasIn(events', "turn_on")
                /\ cycle_count' = cycle_count + 1
          /\ pc = "safe_rest" =>
                pc' = "safe_run" /\ HasIn(events', "turn_on")
          /\ (pc = "safe_run" /\ pc' = "safe_run") =>
                /\ Val(run_start') = Val(run_start) - POLL_INTERVAL_SECONDS
                /\ Now - Val(run_start') <= SAFE_RUN_SECONDS
                /\ cycle_count' = cycle_count]_vars
    /\ [](pc \in {"safe_run", "safe_confirm"} => <>(pc = "safe_rest" \/ pc \notin SafePcs))
    /\ []((pc = "safe_rest" /\ cycle_count < MaxCycles) =>
            <>(pc = "safe_run" /\ Has("turn_on")))

C15_Witness ==
    pc = "safe_run" /\ cycle_count = 3 /\ Has("turn_on") /\ output

\* The seconds the step being taken sleeps, measured on the last-run
\* timestamp, which no step of safe mode sets.
SecondsSlept == last_pump_run - last_pump_run'

\* The commands the step being taken issues, in order.
CommandsIssued == SelectSeq(events', LAMBDA e : e \in {"turn_on", "turn_off"})

C17_TripForcesOffForCooldown ==
    [][/\ HasIn(events', "notify:overtemp") =>
            /\ pc \in {"tick", "safe_run"}
            /\ status'.ok /\ status'.temp_c > MAX_TEMP_C
            /\ SubSeq(events', 1, 3) = <<"get_status", "turn_off", "notify:overtemp">>
            /\ ~HasIn(events', "turn_on")
            /\ SecondsSlept >= OVERTEMP_SLEEP_SECONDS
            /\ pc' = IF pc = "tick" THEN "cooldown" ELSE "safe_rest"
       /\ (pc = "safe_run" /\ status'.ok /\ status'.temp_c > MAX_TEMP_C) =>
            /\ HasIn(events', "notify:overtemp")
            /\ pc' = "safe_rest"
            /\ ~pump_stopped_naturally'
            /\ ~HasIn(events', "sleep:safe_confirm")
            /\ SecondsSlept = SAFE_REST_SECONDS
       /\ pc \in {"cooldown", "safe_rest"} => events'[1] = "turn_on"]_vars

\* Safe mode, the sample hot with the pump idle: the rest, not a natural stop.
C17_Witness ==
    /\ pc = "safe_rest" /\ Has("notify:overtemp") /\ ~pump_stopped_naturally
    /\ status.power < POWER_THRESHOLD_WATTS /\ status.temp_c > MAX_TEMP_C
    /\ Has("turn_off") /\ Has("sleep:safe_rest")

\* The notifications about the SAFE episode that the step being taken sends:
\* "entering safe mode", "back to normal", the periodic update (digest).
EpisodeNotices ==
    <<CountIn(events', "notify:entering_safe_mode"),
      CountIn(events', "notify:back_to_normal"),
      CountIn(events', "notify:still_safe_mode")>>

(***************************************************************************)
(* C18.  Scenario: SAFE is entered, no sample of the first duty cycle is   *)
(* below the run threshold, in the second duty cycle a sample is below the *)
(* threshold and the confirmation sample is below it too.  Then the        *)
(* procedure returns to NORMAL during cycle 2 (the cycle counter is 2),    *)
(* having sent exactly one "entering safe mode" and exactly one "back to   *)
(* normal" notification and no digest: the entry step sends the one        *)
(* "entering safe mode", no step of cycles 1 and 2 sends any of the three, *)
(* a sample below the threshold in cycle 2 (that is not an overtemperature *)
(* sample) leads to the confirmation, and the confirmation sample below    *)
(* the threshold makes the step return to NORMAL with the one "back to     *)
(* normal", which names cycle 2.                                           *)
(***************************************************************************)
C18_ExitInSecondCycle ==
    [][/\ (pc \notin SafePcs /\ pc' \in SafePcs) =>
            EpisodeNotices = <<1, 0, 0>> /\ cycle_count' = 1
       /\ (pc \in SafePcs /\ pc' \in SafePcs /\ cycle_count' <= 2) =>
            EpisodeNotices = <<0, 0, 0>>
       /\ (pc = "safe_run" /\ cycle_count = 1 /\ status'.ok
                /\ status'.power > POWER_THRESHOLD_WATTS) =>
            /\ pc' \in {"safe_run", "safe_rest"}
            /\ cycle_count' = 1
       /\ (pc = "safe_rest" /\ cycle_count = 1) =>
            pc' = "safe_run" /\ cycle_count' = 2
       /\ (pc = "safe_run" /\ cycle_count = 2 /\ status'.ok
                /\ status'.power < POWER_THRESHOLD_WATTS
                /\ status'.temp_c <= MAX_TEMP_C) =>
            pc' = "safe_confirm" /\ cycle_count' = 2
       /\ (pc = "safe_confirm" /\ cycle_count = 2 /\ status'.ok
                /\ status'.power < POWER_THRESHOLD_WATTS) =>
            /\ pc' = "tick" /\ mode' = MODE_NORMAL
            /\ EpisodeNotices = <<0, 1, 0>>
            /\ HasIn(events', CycleText(2))
            /\ ~HasIn(events', "turn_off")]_vars

C18_Witness ==
    /\ pc = "tick" /\ mode = MODE_NORMAL
    /\ Has("notify:back_to_normal") /\ Has(CycleText(2))
    /\ status.ok /\ status.power < POWER_THRESHOLD_WATTS

\* The place of the first e in ev (0: none).
FirstIn(ev, e) ==
    IF HasIn(ev, e) THEN CHOOSE i \in DOMAIN ev : ev[i] = e /\ \A j \in 1..(i - 1) : ev[j] # e
    ELSE 0

(***************************************************************************)
(* C19.  Every SAFE episode sends exactly one "entering safe mode"         *)
(* notification, in the step that enters it and before the first on        *)
(* command, and exactly one "back to normal" notification, in the step     *)
(* that exits it; no step that continues the episode sends either, and no  *)
(* step outside an episode does.                                           *)
(***************************************************************************)
C19_OneEntryOneExitNotice ==
    [][/\ HasIn(events', "notify:entering_safe_mode") <=>
                (pc \notin SafePcs /\ pc' \in SafePcs)
       /\ HasIn(events', "notify:entering_safe_mode") =>
            /\ CountIn(events', "notify:entering_safe_mode") = 1
            /\ FirstIn(events', "notify:entering_safe_mode") = 1
            /\ FirstIn(events', "turn_on") = 2
            /\ ~HasIn(events', "notify:back_to_normal")
       /\ HasIn(events', "notify:back_to_normal") <=>
                (pc \in SafePcs /\ pc' \notin SafePcs)
       /\ HasIn(events', "notify:back_to_normal") =>
            /\ CountIn(events', "notify:back_to_normal") = 1
            /\ pc' = "tick" /\ mode' = MODE_NORMAL
            /\ ~HasIn(events', "notify:entering_safe_mode")]_vars

\* An episode that ended in its first cycle: the exit step and what it sent.
C19_Witness ==
    /\ pc = "tick"
    /\ events = <<"get_status", "notify:back_to_normal", CycleText(1), "sleep:poll">>

(***************************************************************************)
(* C20.  In safe mode, a detected natural stop is followed by the          *)
(* confirmation sample 60 s later.  When that sample is still below the    *)
(* run threshold the procedure exits within that cycle, without an off     *)
(* command and without the rest, so the cycle's on command is the last     *)
(* command issued; when it shows the pump running again the procedure does *)
(* not exit and continues the duty cycle: off command, rest, next cycle.   *)
(***************************************************************************)
C20_ConfirmedStopExitsUnconfirmedRests ==
    [][/\ (pc' = "safe_run" /\ pc # "safe_run") =>
            CommandsIssued[Len(CommandsIssued)] = "turn_on"
       /\ (pc = "safe_run" /\ pc' \in {"safe_run", "safe_confirm"}) =>
            CommandsIssued = <<>>
       /\ (pc = "safe_run" /\ pc' = "safe_confirm") =>
            /\ pump_stopped_naturally'
            /\ SecondsSlept = SAFE_CONFIRM_SECONDS
       /\ (pc = "safe_confirm" /\ status'.ok /\ status'.power < POWER_THRESHOLD_WATTS) =>
            /\ pc' = "tick" /\ mode' = MODE_NORMAL
            /\ HasIn(events', "notify:back_to_normal")
            /\ CommandsIssued = <<>>
            /\ ~HasIn(events', "sleep:safe_rest")
            /\ SecondsSlept = POLL_INTERVAL_SECONDS
       /\ (pc = "safe_confirm" /\ status'.ok /\ status'.power > POWER_THRESHOLD_WATTS) =>
            /\ pc' = "safe_rest" /\ cycle_count' = cycle_count
            /\ ~HasIn(events', "notify:back_to_normal")
            /\ CommandsIssued = <<"turn_off">>
            /\ SecondsSlept = SAFE_REST_SECONDS
       /\ (pc = "safe_rest" /\ pump_stopped_naturally) =>
            pc' = "safe_run" /\ cycle_count' = cycle_count + 1]_vars

\* The confirmation sample showed the pump running again: the rest follows.
C20_Witness ==
    /\ pc = "safe_rest" /\ pump_stopped_naturally
    /\ status.ok /\ status.power > POWER_THRESHOLD_WATTS
    /\ Has("turn_off") /\ ~Has("notify:back_to_normal")

(***************************************************************************)
(* C21.  On a NORMAL tick whose sample reports the output off, the         *)
(* supervisor commands the output on, sends one "plug was turned off"      *)
(* alert, and advances no other logic on that tick: no anomaly detector    *)
(* (illumination and uptime regression included) is evaluated or alerts,   *)
(* and the RunWindow, the AlertFlags, the last-run timestamp and the       *)
(* remembered illumination and uptime are unchanged (the timestamps only   *)
(* age by the 2 s the tick sleeps).                                        *)
(***************************************************************************)
C21_OutputOffTickAdvancesNothingElse ==
    [][(pc = "tick" /\ status'.ok /\ ~status'.output /\ status'.temp_c <= MAX_TEMP_C) =>
            /\ CountIn(events', "turn_on") = 1
            /\ CountIn(events', "notify:plug_off") = 1
            /\ ~HasIn(events', "notify:light") /\ ~HasIn(events', "notify:reboot")
            /\ Len(events') = 4
            /\ running_since' = ElapseOpt(running_since, OUTPUT_OFF_SLEEP_SECONDS, RunAgeCap)
            /\ last_pump_run' = last_pump_run - OUTPUT_OFF_SLEEP_SECONDS
            /\ AlertState' = AlertState
            /\ pc' = "tick" /\ mode' = mode]_vars

(***************************************************************************)
(* C22.  The "plug was turned off ... not done by the monitor script"      *)
(* alert is raised only when the off state was not caused by the           *)
(* supervisor: it is never raised for an output that is off because of the *)
(* supervisor's own off command (interlock shutoff, power-cycle off,       *)
(* safe-mode rest) whose following on command failed to take effect.       *)
(***************************************************************************)
C22_PlugOffAlertOnlyForForeignOff ==
    [][HasIn(events', "notify:plug_off") => off_by # "supervisor"]_vars

\* The tick being taken takes the idle branch of the NORMAL-mode logic: its
\* sample was obtained, shows the output on, does not trip the interlock and
\* does not show the pump running.
IdleTick ==
    /\ pc = "tick" /\ status'.ok /\ status'.output
    /\ status'.temp_c <= MAX_TEMP_C /\ status'.power <= POWER_THRESHOLD_WATTS

(***************************************************************************)
(* C23.  The no-run ("hasn't run") alert is one-shot: it is sent, once, on *)
(* the first idle NORMAL tick at which the time since the last-run         *)
(* timestamp is >= the no-run duration (24 h), it is not sent again on     *)
(* later idle ticks, and it is re-armed only by a tick whose sample shows  *)
(* the pump running.                                                       *)
(***************************************************************************)
C23_NoRunAlertOneShot ==
    [][/\ HasIn(events', "notify:no_run") <=>
            /\ IdleTick
            /\ Now - last_pump_run >= NO_RUN_ALERT_HOURS * 3600
            /\ ~no_run_alerted
       /\ CountIn(events', "notify:no_run") <= 1
       /\ (~no_run_alerted /\ no_run_alerted') => HasIn(events', "notify:no_run")
       /\ HasIn(events', "notify:no_run") => no_run_alerted'
       /\ (no_run_alerted /\ ~no_run_alerted') =>
            /\ pc = "tick" /\ status'.ok /\ status'.power > POWER_THRESHOLD_WATTS
            /\ last_pump_run' = 0 - TickSleepSeconds(events')]_vars

\* An idle tick after the alert: still no run for 24 h, and no second alert.
C23_Witness ==
    /\ pc = "tick" /\ no_run_alerted /\ ~Has("notify:no_run")
    /\ status.ok /\ status.power = 0 /\ Has("sleep:poll")
    /\ Now - last_pump_run >= NO_RUN_ALERT_HOURS * 3600

(***************************************************************************)
(* C24.  The last-run timestamp is updated on any running sample the       *)
(* supervisor obtains, so the no-run alert is raised only if no obtained   *)
(* sample (of a NORMAL tick, an interlock tick, the recovery or the        *)
(* safe-mode monitoring) showed the pump running during the preceding      *)
(* no-run duration (24 h).                                                 *)
(***************************************************************************)
C24_NoRunAlertOnlyIfNotSeenRunning ==
    [][HasIn(events', "notify:no_run") =>
            \/ last_seen_running = None
            \/ Now - Val(last_seen_running) >= NO_RUN_ALERT_HOURS * 3600]_vars

(***************************************************************************)
(* C25.  The power-draw anomaly alert (running power outside [350, 700] W) *)
(* is sent by a NORMAL tick exactly when its sample shows the pump         *)
(* running outside the band, the RunWindow was already open before the     *)
(* tick (so never on the tick that opens it) with an age above 30 s, and   *)
(* the alert was not yet sent in this RunWindow; sending it sets the       *)
(* suppression flag, and the flag is cleared only by the tick that opens a *)
(* new RunWindow, not by the power returning into the band.                *)
(***************************************************************************)
C25_PowerAnomalyOncePerRunWindow ==
    [][/\ HasIn(events', "notify:power_anomaly") <=>
            /\ pc = "tick" /\ mode = MODE_NORMAL
            /\ status'.ok /\ status'.output /\ status'.temp_c <= MAX_TEMP_C
            /\ status'.power > POWER_THRESHOLD_WATTS
            /\ (status'.power < PUMP_POWER_LOW \/ status'.power > PUMP_POWER_HIGH)
            /\ running_since # None
            /\ RunWindowAge > ANOMALY_DELAY_SECONDS
            /\ ~power_anomaly_alerted
       /\ HasIn(events', "notify:power_anomaly") =>
            /\ power_anomaly_alerted'
            /\ CountIn(events', "notify:power_anomaly") = 1
       /\ (power_anomaly_alerted /\ ~power_anomaly_alerted') =>
            /\ pc = "tick" /\ running_since = None /\ running_since' # None
            /\ status'.ok /\ status'.power > POWER_THRESHOLD_WATTS]_vars

\* A later tick of the same RunWindow, after the alert: the power is outside
\* the band again, and no second alert is sent.
C25_Witness ==
    /\ pc = "tick" /\ mode = MODE_NORMAL /\ power_anomaly_alerted
    /\ running_since # None /\ RunWindowAge > 3 * POLL_INTERVAL_SECONDS
    /\ status.ok /\ status.power > POWER_THRESHOLD_WATTS
    /\ status.power < PUMP_POWER_LOW
    /\ Has("sleep:poll") /\ ~Has("notify:power_anomaly")

\* The last two entries of the log ev.
Tail2(ev) == IF Len(ev) < 2 THEN ev ELSE SubSeq(ev, Len(ev) - 1, Len(ev))

(***************************************************************************)
(* C26.  The Recovery Procedure issues exactly this sequence and nothing   *)
(* else: actuator off and a wait of 10 s (ending the tick that triggered   *)
(* it), then actuator on and a wait of 60 s, then one telemetry read,      *)
(* after which it returns its verdict; one off and one on command, the on  *)
(* command last, and no further attempt inside the procedure.              *)
(***************************************************************************)
C26_RecoverySequence ==
    [][/\ pc' = "pc_off" =>
            /\ pc = "tick"
            /\ Tail2(events') = <<"turn_off", "sleep:power_cycle_off">>
            /\ CommandsIssued = <<"turn_off">>
       /\ pc = "pc_off" =>
            /\ events' = <<"turn_on", "sleep:power_cycle_settle">>
            /\ pc' = "pc_settle"
       /\ pc = "pc_settle" =>
            /\ events' = <<"get_status">>
            /\ pc' = "pc_result"]_vars

(***************************************************************************)
(* C27.  A NORMAL tick whose telemetry read fails is skipped entirely: it  *)
(* does nothing but the read and a sleep of one poll interval (no actuator *)
(* command, no notification), it leaves mode, the AlertFlags and the       *)
(* remembered illumination and uptime unchanged, it keeps the RunWindow    *)
(* and the last-run timestamp (both only age by the sleep), and the next   *)
(* step is again a tick of the main loop, however many reads fail in a row.*)
(***************************************************************************)
C27_FailedReadSkipsTick ==
    [][(pc = "tick" /\ ~status'.ok) =>
            /\ events' = <<"get_status", "sleep:poll">>
            /\ pc' = "tick"
            /\ mode' = mode
            /\ AlertState' = AlertState
            /\ running_since' = ElapseOpt(running_since, POLL_INTERVAL_SECONDS, RunAgeCap)
            /\ last_pump_run' =
                    Elapse(last_pump_run, POLL_INTERVAL_SECONDS, NoRunAlertSeconds)]_vars

\* A failed read in the middle of a run: the RunWindow is still open, 60 s or
\* more old, and the voltage alert flag is still set.
C27_Witness ==
    /\ pc = "tick" /\ ~status.ok /\ events = <<"get_status", "sleep:poll">>
    /\ running_since # None /\ RunWindowAge >= 2 * POLL_INTERVAL_SECONDS
    /\ voltage_alerted /\ mode = MODE_NORMAL

(***************************************************************************)
(* C28.  An exception raised inside a tick is caught at the loop boundary: *)
(* the handler issues no command and sends no notification, waits one poll *)
(* interval, and the next step is again a tick of the main loop, in NORMAL *)
(* mode; the exception never ends the supervisor.                          *)
(***************************************************************************)
C28_ExceptionCaughtAtLoopBoundary ==
    [][HasIn(events', "exception") =>
            /\ Tail2(events') = <<"exception", "sleep:poll">>
            /\ CountIn(events', "exception") = 1
            /\ CommandsIssued = <<>>
            /\ pc' = "tick"
            /\ mode' = MODE_NORMAL]_vars

\* The tick after a recovery whose sample raised: the loop is still running.
C28_Witness ==
    /\ pc = "tick" /\ Has("exception") /\ Has("sleep:poll")
    /\ running_since # None /\ mode = MODE_NORMAL

\* The variables of the program, the position in it excepted.
ProgramState ==
    <<mode, running_since, last_pump_run, status, still_stuck, cycle_count, run_start,
      AlertState>>

(***************************************************************************)
(* C29.  A termination signal can be taken in every state of the running   *)
(* supervisor (NORMAL tick, cooldown, recovery waits, safe-mode run,       *)
(* confirmation and rest).  Taking it ends the supervisor at once: no      *)
(* actuator command, no telemetry read, no notification and no sleep, the  *)
(* relay is left as it was just before the signal, the loop's exception    *)
(* handler does not run, and nothing happens after the exit.               *)
(***************************************************************************)
C29_SignalExitsWithoutCommand ==
    /\ [](pc # "stopped" => ENABLED Shutdown)
    /\ [][/\ HasIn(events', "exit") =>
                /\ events' = <<"exit">>
                /\ pc' = "stopped"
                /\ output' = output
                /\ ProgramState' = ProgramState
          /\ pc # "stopped"]_vars

\* Stopped during the rest period of a safe-mode cycle: the relay stays off.
C29_Witness ==
    /\ pc = "stopped" /\ events = <<"exit">>
    /\ cycle_count >= 1
    /\ ~output /\ off_by = "supervisor"

(***************************************************************************)
(* C30.  At startup the supervisor reads the telemetry once.  If the reply *)
(* reports the output off it commands the output on (and waits 2 s); if    *)
(* the reply reports the output on, or no reply is obtained, it issues no  *)
(* command.  In all cases the main loop then begins in NORMAL mode with no *)
(* RunWindow, all AlertFlags clear, no remembered illumination or uptime,  *)
(* and the last-run timestamp set to the time the loop starts.             *)
(***************************************************************************)
C30_Startup ==
    [][pc = "startup" =>
            /\ events' = IF status'.ok /\ ~status'.output
                         THEN <<"get_status", "turn_on", "sleep:startup">>
                         ELSE <<"get_status">>
            /\ pc' = "tick"
            /\ mode' = MODE_NORMAL
            /\ running_since' = None
            /\ AlertState' = <<FALSE, FALSE, FALSE, FALSE, FALSE, None, None>>
            /\ last_pump_run' = Now]_vars

\* The main loop is about to start after a startup that found the output off
\* and switched it on.
C30_Witness ==
    /\ pc = "tick" /\ events = <<"get_status", "turn_on", "sleep:startup">>
    /\ status.ok /\ ~status.output /\ output
    /\ mode = MODE_NORMAL /\ running_since = None /\ last_pump_run = Now

\* The subjects of the notifications the supervisor sends.
Subjects ==
    {"notify:overtemp", "notify:light", "notify:reboot", "notify:plug_off",
     "notify:voltage_low", "notify:voltage_high", "notify:wifi", "notify:temp_rising",
     "notify:power_anomaly", "notify:power_cycle_fixed", "notify:no_run",
     "notify:entering_safe_mode", "notify:still_safe_mode", "notify:back_to_normal"}

\* The calls of send_notification in the log ev.
NotificationsIn(ev) == SelectSeq(ev, LAMBDA e : e \in Subjects)

(***************************************************************************)
(* C31.  Every call of send_notification tries e-mail once and then push   *)
(* once, whichever of the two fails: a failure of one channel does not     *)
(* prevent the attempt on the other, is not retried and is not raised to   *)
(* the caller (the only exception of the supervisor is that of the         *)
(* recovery's sample, where nothing is sent), and entering safe mode       *)
(* issues the same commands after its notification whichever channels      *)
(* failed.                                                                 *)
(***************************************************************************)
C31_ChannelsIndependent ==
    [][/\ Len(attempts') = 2 * Len(NotificationsIn(events'))
       /\ \A i \in 1..Len(attempts') :
            attempts'[i] = IF i % 2 = 1 THEN <<"email", "email" \in channels>>
                           ELSE <<"push", "push" \in channels>>
       /\ HasIn(events', "exception") => pc = "pc_settle" /\ attempts' = <<>>
       /\ HasIn(events', "notify:entering_safe_mode") =>
            events' = <<"notify:entering_safe_mode", "turn_on", "sleep:poll">>
       /\ channels' = channels]_vars

\* Safe mode was entered while the mail server was down: the push went out
\* and the first duty cycle was started.
C31_Witness ==
    /\ pc = "safe_run" /\ Has("notify:entering_safe_mode") /\ Has("turn_on")
    /\ attempts = <<<<"email", FALSE>>, <<"push", TRUE>>>>

\* The anomaly alerts: what the level detectors, the edge detectors, the power
\* anomaly check and the no-run check send.
AnomalySubjects ==
    {"notify:voltage_low", "notify:voltage_high", "notify:wifi", "notify:temp_rising",
     "notify:power_anomaly", "notify:no_run", "notify:light", "notify:reboot"}

\* The step being taken raises an anomaly alert.
AnomalyAlertRaised == \E e \in AnomalySubjects : HasIn(events', e)

(***************************************************************************)
(* C32.  Anomaly alerts are advisory only.  In a tick whose sample does    *)
(* not trip the interlock, the actuator commands, the mode and the         *)
(* RunWindow are determined by the reported output, the power and the      *)
(* RunWindow's age alone, whether or not the tick raises a voltage,        *)
(* signal-strength, temperature-warning, power-anomaly, no-run,            *)
(* illumination or uptime alert: turn_on exactly when the output is        *)
(* reported off, turn_off exactly when the run limit is reached, nothing   *)
(* otherwise; the mode is kept; the RunWindow is kept when the output is   *)
(* off, open when the pump is running and closed when it is idle.  A tick  *)
(* with the output on and the run limit not reached that raises such an    *)
(* alert issues no command.                                                *)
(***************************************************************************)
C32_AnomalyAlertsAdvisory ==
    [][/\ (pc = "tick" /\ status'.ok /\ ~check_temp_safety(status')) =>
            LET running == is_pump_running(status', status')
                limit == running /\ RunLimitReached(running_since)
                kept == IF running /\ running_since = None THEN Some(Now)
                        ELSE running_since
            IN  /\ mode' = mode
                /\ CommandsIssued = IF ~status'.output THEN <<"turn_on">>
                                    ELSE IF limit THEN <<"turn_off">>
                                    ELSE <<>>
                /\ running_since' =
                        IF status'.output /\ ~running THEN None
                        ELSE ElapseOpt(kept, TickSleepSeconds(events'), RunAgeCap)
       /\ AnomalyAlertRaised =>
            /\ pc = "tick" /\ status'.ok /\ ~check_temp_safety(status')
            /\ (status'.output /\ pc' = "tick") => CommandsIssued = <<>>]_vars

\* The second tick of a run met a brown-out: four alerts were raised, no
\* command was issued and the RunWindow opened by the first tick is kept.
C32_Witness ==
    /\ pc = "tick" /\ Has("sleep:poll")
    /\ Has("notify:voltage_low") /\ Has("notify:wifi") /\ Has("notify:light")
    /\ Has("notify:reboot")
    /\ ~Has("turn_on") /\ ~Has("turn_off")
    /\ mode = MODE_NORMAL /\ running_since = Some(0 - POLL_INTERVAL_SECONDS)

\* The step being taken is a processed tick: its sample was obtained and did
\* not trip the interlock, so it reaches the trackers of lines 356-381.
ProcessedTick == pc = "tick" /\ status'.ok /\ ~check_temp_safety(status')

(***************************************************************************)
(* C33.  The edge-triggered detectors are not flag-gated.  The remembered  *)
(* illumination and uptime are those of the previous processed tick (every *)
(* processed tick stores its sample's values, no other step changes them). *)
(* An illumination alert is sent on exactly the processed ticks whose      *)
(* remembered illumination is "dark" and whose sample is not "dark", so    *)
(* never for non-dark to dark nor on the first sample; a reboot alert is   *)
(* sent on exactly the processed ticks whose uptime is lower than the      *)
(* remembered one; each such tick sends its own single notification.       *)
(***************************************************************************)
C33_EdgeDetectors ==
    [][/\ HasIn(events', "notify:light") <=>
            /\ ProcessedTick
            /\ last_illumination = Some("dark")
            /\ status'.illumination # "dark"
       /\ HasIn(events', "notify:reboot") <=>
            /\ ProcessedTick
            /\ last_uptime # None
            /\ status'.uptime < Val(last_uptime)
       /\ CountIn(events', "notify:light") <= 1
       /\ CountIn(events', "notify:reboot") <= 1
       /\ IF ProcessedTick
          THEN /\ last_illumination' = Some(status'.illumination)
               /\ last_uptime' = Some(status'.uptime)
          ELSE /\ last_illumination' = last_illumination
               /\ last_uptime' = last_uptime]_vars

\* A tick found the light on and the uptime lower than before, and alerted
\* for both, while level alerts of an earlier tick are still suppressed.
C33_Witness ==
    /\ pc = "tick" /\ Has("notify:light") /\ Has("notify:reboot")
    /\ last_illumination = Some("bright") /\ last_uptime = Some(0)
    /\ voltage_alerted /\ ~Has("notify:voltage_low")

(***************************************************************************)
(* C34.  The safe-mode cycle counter is 1 in the first duty cycle of every *)
(* episode (it starts at zero on entry and the cycle's start increments    *)
(* it), goes up by one exactly when a rest ends and the next cycle starts, *)
(* and is otherwise constant during the episode.  The digest is sent by    *)
(* exactly the steps that begin a rest in a cycle whose counter is a       *)
(* multiple of 3, once; with or without it the step that begins a rest     *)
(* keeps the counter, ends with the off command followed by the rest wait  *)
(* of 600 s, and issues no on command.                                     *)
(***************************************************************************)
C34_CycleCounterAndDigest ==
    [][/\ (pc = "pc_result" /\ pc' \in SafePcs) => cycle_count' = 1
       /\ (pc = "safe_rest" /\ pc' \in SafePcs) => cycle_count' = cycle_count + 1
       /\ (pc \in {"safe_run", "safe_confirm"} /\ pc' \in SafePcs) =>
            cycle_count' = cycle_count
       /\ HasIn(events', "notify:still_safe_mode") <=>
            /\ pc \in {"safe_run", "safe_confirm"} /\ pc' = "safe_rest"
            /\ cycle_count % SAFE_UPDATE_INTERVAL = 0
       /\ CountIn(events', "notify:still_safe_mode") <= 1
       /\ pc' = "safe_rest" =>
            /\ pc \in {"safe_run", "safe_confirm"}
            /\ CommandsIssued \in {<<"turn_off">>, <<"turn_off", "turn_off">>}
            /\ Len(CommandsIssued) = 2 <=> HasIn(events', "notify:overtemp")
            /\ events'[Len(events')] = "sleep:safe_rest"
            /\ SecondsSlept = SAFE_REST_SECONDS]_vars

\* The rest of the third cycle has begun, with the digest.
C34_Witness ==
    /\ pc = "safe_rest" /\ cycle_count = SAFE_UPDATE_INTERVAL
    /\ Has("notify:still_safe_mode") /\ Has("turn_off") /\ Has("sleep:safe_rest")

(***************************************************************************)
(* C35.  The safe-mode digest reports the total elapsed time: the minutes  *)
(* stated in a digest equal the time elapsed, when it is sent, since safe  *)
(* mode was entered (the run, confirmation and rest waits completed so     *)
(* far), in whole minutes.                                                 *)
(***************************************************************************)
C35_DigestStatesElapsedTime ==
    [][stated_minutes' # None =>
            /\ safe_entered # None
            /\ Val(stated_minutes') = (Now - Val(safe_entered)) \div 60]_vars

(***************************************************************************)
(* C36.  The Recovery Procedure reports "cleared" only when the post-settle *)
(* telemetry sample was obtained and shows power not above the run         *)
(* threshold, and only then does the supervisor send the success           *)
(* notification and clear the RunWindow; a post-settle sample that could   *)
(* not be obtained is never reported as a successful recovery.             *)
(***************************************************************************)
C36_ClearedOnlyOnObtainedSample ==
    [][/\ (pc = "pc_settle" /\ pc' = "pc_result" /\ ~still_stuck') =>
            /\ obtained' >= 1
            /\ status'.ok => status'.power <= POWER_THRESHOLD_WATTS
       /\ HasIn(events', "notify:power_cycle_fixed") =>
            /\ pc = "pc_result" /\ ~still_stuck
            /\ obtained >= 1
            /\ running_since' = None]_vars

(***************************************************************************)
(* C37.  At the start of every tick of the main loop the last actuator     *)
(* command the supervisor has issued, if it has issued any, is "on": the   *)
(* interlock cooldown, the Recovery Procedure and safe mode each end with  *)
(* the output commanded on before control returns to the polling loop, and *)
(* so does a tick that found the output off.                               *)
(***************************************************************************)
C37_CommandedOnAtTick ==
    /\ pc = "tick" => last_command \in {"none", "on"}
    /\ (pc = "tick" /\ (Has("turn_on") \/ Has("turn_off"))) => last_command = "on"

\* Back in the main loop after a safe-mode episode that had rested at least
\* once: the off command of the rest was followed by an on command.
C37_Witness ==
    /\ pc = "tick" /\ Has("notify:back_to_normal") /\ Has("cycle 2")
    /\ last_command = "on"

(***************************************************************************)
(* C38.  With a permanently stuck float (every obtained sample shows the   *)
(* pump running, output on, temperature below the cutoff), if again and    *)
(* again a step of the supervisor obtains a telemetry sample then the      *)
(* supervisor eventually enters safe mode: it cannot stay in NORMAL        *)
(* forever with the pump running.                                          *)
(***************************************************************************)
C38_StuckFloatLeadsToSafeMode ==
    ([]<><<obtained' >= 1>>_vars) => <>(pc \in SafePcs)

(***************************************************************************)
(* C39.  An exception raised inside the Recovery Procedure or inside safe  *)
(* mode does not abandon the procedure: the supervisor is back in the      *)
(* polling loop only after the procedure has returned normally, so no step *)
(* from the recovery or from safe mode back to the polling loop raises,    *)
(* and each such step leaves the RunWindow unset.                          *)
(***************************************************************************)
C39_ProceduresNotAbandoned ==
    [][(pc \in RecoveryPcs \cup SafePcs /\ pc' = "tick") =>
            /\ ~HasIn(events', "exception")
            /\ running_since' = None]_vars

(***************************************************************************)
(* C40.  A termination signal may be delivered at any point, including     *)
(* the power cycle's off-wait, the interlock cooldown and the safe-mode    *)
(* rest; whenever the process exits, the last actuator command the         *)
(* supervisor issued, if it issued any, is "on".                           *)
(***************************************************************************)
C40_ExitLeavesCommandedOn ==
    pc = "stopped" => last_command \in {"none", "on"}

====
